---- MODULE Spec2Model ----
(***************************************************************************)
(* A model of the MAPE-K control-loop engine:                              *)
(*   - MapeKPipelineTemplate (domain/patterns/template_method_pipeline.py) *)
(*   - the Command subsystem  (domain/commands/command_pattern.py)         *)
(*   - DigitalTwinEventBus    (domain/events/event_system.py)              *)
(*   - Executor               (application/services/executor_service.py)   *)
(***************************************************************************)
EXTENDS Integers, Sequences, FiniteSets, TLC

VARIABLES
    \* ---- MapeKPipelineTemplate / PipelineContext --------------------------
    error_handling_strategy, \* self.error_handling_strategy
    hooks_enabled,           \* self.hooks_enabled
    performance_monitoring,  \* self.performance_monitoring
    pc,                      \* position of the execute_pipeline coroutine
    call_idx,                \* which of the five _execute_stage calls is current
    current_stage,           \* context.current_stage
    attempt,                 \* loop variable of _retry_stage
    backoff_delays,          \* trace: the sleeps of the _retry_stage call in
                             \*        progress (or that raised), in seconds
    stage_metrics,           \* context.stage_metrics
    last_stage_end,          \* trace: the stage whose _execute_stage call ended
                             \*        last, and whether its body had succeeded
    stage_starts,            \* trace: stage bodies in the order they were entered
    hook_calls,              \* trace: the hooks in the order they were invoked
    running,                 \* trace: stage bodies entered and not yet left
    commands_sent,           \* trace: commands dispatched by the execute phase
    commands_completed,      \* trace: dispatched commands whose call has ended
    failed_stage,            \* trace: first stage whose body raised ("none" if none)
    raise_cause,             \* trace: why execute_pipeline raised ("none" if not)
    \* ---- Command objects ---------------------------------------------------
    status,                  \* Command.status, per command
    previous_value,          \* SystemParameterAdjustmentCommand.previous_value
    executed_commands,       \* CompositeCommand.executed_commands
    parameter_value,         \* last value _set_parameter_value sent, per target
    last_writer,             \* trace: the command that sent it
    fault_count,             \* trace: device calls that have raised
    \* ---- CommandInvoker ----------------------------------------------------
    command_history,         \* self.command_history
    undo_stack,              \* self.undo_stack
    redo_stack,              \* self.redo_stack
    active_commands,         \* self.active_commands (its keys)
    invoker_pc,              \* position of the invoker call in progress
    current_command,         \* the command of the execute_command in progress
    op_count,                \* trace: number of invoker calls made
    last_op,                 \* trace: the last invoker call that returned
    undo_snapshot,           \* trace: what held just before the last undo, while
                             \*        that undo or the redo after it is the last call
    \* ---- DigitalTwinEventBus -----------------------------------------------
    observers,               \* self._observers: per event type, who is subscribed
    event_history,           \* self._event_history
    metrics,                 \* self._metrics
    pub_pc,                  \* per publisher: position of its publish call
    pub_event,               \* per publisher: the event of its call in progress
    publish_count,           \* publish calls made so far; numbers the events
    tasks,                   \* per publisher and observer: the on_event task
    last_publish,            \* trace: the publish call that started in the last step
    last_return,             \* trace: the publish call that returned in the last step
    \* ---- Executor ----------------------------------------------------------
    breaker,                 \* the CircuitBreaker that decorates execute_command
    now,                     \* the clock, in seconds
    exec_pc,                 \* position of the execute call
    exec_plans,              \* the node ids of the plans of the call in progress
    exec_tasks,              \* the coroutines handed to gather, in order
    endpoint,                \* trace, per node: failed calls in a row, and when
                             \*        the fail_max-th of them failed
    calls_made,              \* trace: number of execute_command calls made
    exec_result,             \* trace: the execute call that returned in the last step
    \* ---- EmergencyShutdownCommand ------------------------------------------
    component_ids,           \* self.component_ids
    component_states,        \* self.component_states: the state captured
    shutdown_status,         \* self.status of the shutdown command
    component_active,        \* the devices: whether the component is running
    sd_pc,                   \* position of the execute or undo call in progress
    sd_idx,                  \* loop position of that call
    sd_calls,                \* trace: number of execute and undo calls made
    sd_log,                  \* trace: the device calls of the last call, in order
    sd_result,                \* trace: the result of the last call that returned
    \* ---- MultiSystemIntegrationManager -------------------------------------
    adapters,                \* self.adapters: the system names, in insertion order
    system_priorities,       \* self.system_priorities
    connected,               \* LegacySystemAdapter.connected, per system
    manager_calls,           \* trace: number of calls made on the manager
    last_read,               \* trace: the read_all_sensors call of the last step
    last_command,             \* trace: the execute_command_on_best_system call
                             \*        of the last step
    \* ---- AnalysisStrategy / Analyzer ---------------------------------------
    analysis_input,          \* the sensor data handed to analyze
    analysis_result,          \* trace: what the analyze call of the last step returned
    \* ---- ScenarioAnalyzer --------------------------------------------------
    strategies,              \* self.strategies: scenario -> strategy
    current_strategy,        \* the selected strategy, or "none"
    current_context,         \* the selected context
    scenario_calls,          \* calls made on the analyzer so far
    refused_scenarios,       \* scenarios asked for while unregistered and not selected since
    last_scenario_op,         \* the last call and what it returned
    \* ---- gradual adjustment ------------------------------------------------
    adj_pc,                  \* pending, executing, completed, undoing, undone
    adj_new_value,           \* self.new_value
    adj_previous_value,      \* self.previous_value
    adj_current_value,       \* current_value of the running loop
    adj_target,              \* the value the running loop goes to
    adj_steps,               \* steps of the running loop
    adj_i,                   \* writes the running loop has made
    adj_intermediate,         \* the value last written, times adj_steps
    \* ---- AsyncMAPEK.run_loop -----------------------------------------------
    loop_pc,                 \* monitor, analyze, plan, execute, sleep, error_sleep
    loop_cycle,              \* number of the running iteration, modulo MaxCycles
    loop_sensor_data,        \* local sensor_data
    loop_analysis,           \* local analysis
    loop_plans,              \* local plans
    loop_calls,              \* service calls of the running iteration
    loop_status,              \* running, completed, failed
    \* ---- StandardWaterUtilityPipeline --------------------------------------
    std_pc,                  \* idle, monitor, analyze, plan, execute, knowledge_update, post
    std_run,                 \* execute_pipeline calls made
    std_sensor_data,         \* context.sensor_data
    std_analysis_result,     \* context.analysis_result
    std_execution_plan,      \* context.execution_plan
    std_execution_result,    \* context.execution_result
    std_failed,              \* stages with a failure metric in context.stage_metrics
    std_calls                \* service calls of the running execute_pipeline

pipeVars == <<error_handling_strategy, hooks_enabled, performance_monitoring, pc,
              call_idx, current_stage, attempt, backoff_delays, stage_metrics,
              last_stage_end, hook_calls, stage_starts,
              running, commands_sent, commands_completed, failed_stage,
              raise_cause>>

cmdVars == <<status, previous_value, executed_commands, parameter_value,
             last_writer, fault_count, command_history, undo_stack, redo_stack,
             active_commands, invoker_pc, current_command, op_count, last_op,
             undo_snapshot>>

busVars == <<observers, event_history, metrics, pub_pc, pub_event, tasks,
             last_publish, last_return, publish_count>>

execVars == <<breaker, now, exec_pc, exec_plans, exec_tasks, endpoint,
              calls_made, exec_result>>

shutdownVars == <<component_ids, component_states, shutdown_status,
                  component_active, sd_pc, sd_idx, sd_calls, sd_log, sd_result>>

managerVars == <<adapters, system_priorities, connected, manager_calls,
                 last_read, last_command>>

analysisVars == <<analysis_input, analysis_result>>

scenarioVars == <<strategies, current_strategy, current_context, scenario_calls, refused_scenarios, last_scenario_op>>

adjustVars == <<adj_pc, adj_new_value, adj_previous_value, adj_current_value, adj_target, adj_steps, adj_i, adj_intermediate>>

loopVars == <<loop_pc, loop_cycle, loop_sensor_data, loop_analysis, loop_plans, loop_calls, loop_status>>

stdVars == <<std_pc, std_run, std_sensor_data, std_analysis_result, std_execution_plan, std_execution_result, std_failed, std_calls>>

vars == <<pipeVars, cmdVars, busVars, execVars, shutdownVars, managerVars, analysisVars, scenarioVars, adjustVars, loopVars, stdVars>>

\* what the calls of one subsystem leave alone
notPipeVars == <<cmdVars, busVars, execVars, shutdownVars, managerVars, analysisVars, scenarioVars, adjustVars, loopVars, stdVars>>
notCmdVars == <<pipeVars, busVars, execVars, shutdownVars, managerVars, analysisVars, scenarioVars, adjustVars, loopVars, stdVars>>
notBusVars == <<pipeVars, cmdVars, execVars, shutdownVars, managerVars, analysisVars, scenarioVars, adjustVars, loopVars, stdVars>>
notExecVars == <<pipeVars, cmdVars, busVars, shutdownVars, managerVars, analysisVars, scenarioVars, adjustVars, loopVars, stdVars>>
notShutdownVars == <<pipeVars, cmdVars, busVars, execVars, managerVars, analysisVars, scenarioVars, adjustVars, loopVars, stdVars>>
notManagerVars == <<pipeVars, cmdVars, busVars, execVars, shutdownVars, analysisVars, scenarioVars, adjustVars, loopVars, stdVars>>
notAnalysisVars == <<pipeVars, cmdVars, busVars, execVars, shutdownVars, managerVars, scenarioVars, adjustVars, loopVars, stdVars>>
notScenarioVars == <<pipeVars, cmdVars, busVars, execVars, shutdownVars, managerVars, analysisVars, adjustVars, loopVars, stdVars>>
notAdjustVars == <<pipeVars, cmdVars, busVars, execVars, shutdownVars, managerVars, analysisVars, scenarioVars, loopVars, stdVars>>
notLoopVars == <<pipeVars, cmdVars, busVars, execVars, shutdownVars, managerVars, analysisVars, scenarioVars, adjustVars, stdVars>>
notStdVars == <<pipeVars, cmdVars, busVars, execVars, shutdownVars, managerVars, analysisVars, scenarioVars, adjustVars, loopVars>>

(***************************************************************************)
(* Bounds of the model.                                                    *)
(***************************************************************************)
MaxCommands == 2
MaxOps == 4
MaxFaults == 1
\* CommandInvoker(max_history_size): the capacity of the history
max_history_size == 2
\* the execute and undo calls made on the shutdown command
MaxShutdownCalls == 3
\* the calls made on the integration manager, and the priorities given to
\* add_system: 1..MaxPriority
MaxManagerCalls == 5
MaxPriority == 3
\* the sensor readings (or the fields of a node's reading) of one analysis, and
\* the issues the quality checker may report for a reading
MaxReadings == 3
MaxIssues == 2
MaxScenarioCalls == 4
\* the iterations of run_loop that are told apart (the count wraps around),
\* and the execute_pipeline calls made on the standard pipeline
MaxCycles == 2

(***************************************************************************)
(* Command objects.  Values are in tenths of the parameter's unit, so the  *)
(* adjustment_rate 0.1 is 1 and the simulated reading 2.5 is 25.           *)
(***************************************************************************)
\* The command objects of the model: two adjustments handed to the invoker
\* one by one (the second outside its safety limits), a sequential composite of
\* three adjustments and a parallel composite of two adjustments and one
\* command of another Command subclass, whose execute may raise.
SpaCommands == {"adjust", "unsafe", "s1", "s2", "s3", "q1", "q2"}
PlainCommands == {"q3"}
CompositeCommands == {"seq_cmd", "par_cmd"}
Commands == SpaCommands \cup PlainCommands \cup CompositeCommands
\* the commands the caller hands to the invoker
Invocable == {"adjust", "unsafe", "seq_cmd", "par_cmd"}

\* CompositeCommand.sub_commands
sub_commands ==
    [c \in CompositeCommands |->
        IF c = "seq_cmd" THEN <<"s1", "s2", "s3">> ELSE <<"q1", "q2", "q3">>]

\* CompositeCommand.execution_strategy
execution_strategy ==
    [c \in CompositeCommands |->
        IF c = "seq_cmd" THEN "sequential" ELSE "parallel"]

\* Command.prerequisites (add_prerequisite): as in
\* create_system_optimization_sequence, the second adjustment depends on the
\* first, in the sequential composite and in the parallel one
prerequisites ==
    [c \in Commands |->
        CASE c = "unsafe" -> {"adjust"}
          [] c = "s2"     -> {"s1"}
          [] c = "q2"     -> {"q1"}
          [] OTHER        -> {}]

\* SystemParameterAdjustmentCommand.parameter_name
parameter_name ==
    [c \in SpaCommands |->
        CASE c \in {"adjust", "unsafe", "s1", "q1"} -> "pressure"
          [] c \in {"s2", "q2"}                     -> "flow_rate"
          [] OTHER                                  -> "valve_position"]

\* SystemParameterAdjustmentCommand.target_component
target_component ==
    [c \in SpaCommands |->
        CASE c \in {"adjust", "unsafe", "q1"} -> "main_pump"
          [] c = "q2"                         -> "main_valve"
          [] c = "s1"                         -> "zone_pump"
          [] c = "s2"                         -> "zone_valve"
          [] OTHER                            -> "zone_gate"]

\* the commands a call on c may reach: c itself or its sub-commands
Subs(c) ==
    IF c \notin CompositeCommands THEN {c}
    ELSE {sub_commands[c][i] : i \in 1..Len(sub_commands[c])}

\* the (component, parameter) a command writes
Target(c) == <<target_component[c], parameter_name[c]>>
Targets == {Target(c) : c \in SpaCommands}

\* SystemParameterAdjustmentCommand.new_value
new_value ==
    [c \in SpaCommands |->
        CASE c = "adjust" -> 30
          [] c = "unsafe" -> 65
          [] c = "s1"     -> 31
          [] c = "s2"     -> 27
          [] c = "s3"     -> 25
          [] c = "q1"     -> 40
          [] OTHER        -> 26]

\* _get_safety_limits
safety_limits(c) ==
    CASE parameter_name[c] = "pressure"       -> <<0, 60>>
      [] parameter_name[c] = "flow_rate"      -> <<0, 2000>>
      [] parameter_name[c] = "valve_position" -> <<0, 1000>>
      [] parameter_name[c] = "pump_speed"     -> <<0, 1000>>
      [] parameter_name[c] = "temperature"    -> <<-50, 500>>

\* self.adjustment_rate
adjustment_rate == 1

\* _get_current_value: the simulated reading
GetCurrentValue == 25

None == <<>>
Some(v) == <<v>>

Abs(x) == IF x < 0 THEN -x ELSE x
Max(a, b) == IF a >= b THEN a ELSE b
Reverse(s) == [i \in 1..Len(s) |-> s[Len(s) + 1 - i]]

\* What the device I/O does during one execute / one undo.  A call that raises
\* has no effect; the calls before it have taken effect.
ExecOutcomes == {"ok", "fault_read", "fault_first_write", "fault_last_write"}
\* Command.execute of a subclass that does not catch: it completes or it raises
PlainOutcomes == {"ok", "raise"}
UndoOutcomes == {"ok", "fault"}

\* steps = max(1, int(abs(to - from) / self.adjustment_rate))
Steps(from, to) == Max(1, Abs(to - from) \div adjustment_rate)
\* intermediate_value = current_value + (step_size * (i + 1)), after i writes
ValueAfter(from, to, i) == from + ((to - from) * i) \div Steps(from, to)

\* A command call works on the fields of the command objects and the device:
\* w.executed and w.undone list the execute and undo bodies the call has run.
\* Command.can_execute
can_execute_once_run(w, c) ==
    \A p \in prerequisites[c] : w.status[p] # "PENDING"
can_execute(w, c) ==
    \A p \in prerequisites[c] : w.status[p] = "COMPLETED"

\* the execute body of c is entered: w.executed lists the bodies entered, w.unmet
\* those entered while a prerequisite of theirs was not COMPLETED
BodyEntered(w, c) ==
    [w EXCEPT !.executed = Append(@, c),
              !.unmet = IF can_execute(w, c) THEN @ ELSE @ \cup {c}]

\* SystemParameterAdjustmentCommand.can_undo
SPA_can_undo(w, c) ==
    w.status[c] = "COMPLETED" /\ w.previous_value[c] # None

\* SystemParameterAdjustmentCommand.execute: min_val <= self.new_value <= max_val
LowerLimitOnly(c) ==
    safety_limits(c)[1] <= new_value[c]
WithinSafetyLimits(c) ==
    safety_limits(c)[1] <= new_value[c] /\ new_value[c] <= safety_limits(c)[2]

\* SystemParameterAdjustmentCommand.execute
SPA_execute(w, c, o) ==
    LET ran  == BodyEntered(w, c)
        cur  == GetCurrentValue
        n    == Steps(cur, new_value[c])
        kept == [ran EXCEPT !.previous_value[c] = Some(cur)]
        wrote(i) ==
            IF i = 0 THEN kept
            ELSE [kept EXCEPT !.parameter_value[Target(c)] =
                                   Some(ValueAfter(cur, new_value[c], i)),
                              !.last_writer[Target(c)] = c]
    IN  IF ~WithinSafetyLimits(c)
        THEN [w |-> ran, success |-> FALSE]
        ELSE CASE o = "fault_read" ->
                    [w |-> [ran EXCEPT !.status[c] = "FAILED", !.faults = @ + 1],
                     success |-> FALSE]
               [] o = "fault_first_write" ->
                    [w |-> [kept EXCEPT !.status[c] = "FAILED", !.faults = @ + 1],
                     success |-> FALSE]
               [] o = "fault_last_write" ->
                    [w |-> [wrote(n - 1) EXCEPT !.status[c] = "FAILED",
                                                !.faults = @ + 1],
                     success |-> FALSE]
               [] OTHER ->
                    [w |-> [wrote(n) EXCEPT !.status[c] = "COMPLETED"],
                     success |-> TRUE]

\* SystemParameterAdjustmentCommand.undo
SPA_undo(w, c, o) ==
    IF w.previous_value[c] = None
    THEN [w |-> w, success |-> FALSE]
    ELSE LET ran == [w EXCEPT !.undone = Append(@, <<c, w.status[c]>>)]
             cur == GetCurrentValue
             prv == w.previous_value[c][1]
             n   == Steps(cur, prv)
         IN  IF o = "ok"
             THEN [w |-> [ran EXCEPT !.parameter_value[Target(c)] =
                                         Some(ValueAfter(cur, prv, n)),
                                     !.last_writer[Target(c)] = c,
                                     !.status[c] = "UNDONE"],
                   success |-> TRUE]
             ELSE [w |-> [ran EXCEPT !.faults = @ + 1], success |-> FALSE]

\* Command.execute of a subclass that does not catch (the abstract method): the
\* command completes, or its execute raises and leaves the status alone
Plain_execute(w, c, o) ==
    LET ran == BodyEntered(w, c)
    IN  IF o = "raise"
        THEN [w |-> [ran EXCEPT !.faults = @ + 1], success |-> FALSE,
              raised |-> TRUE]
        ELSE [w |-> [ran EXCEPT !.status[c] = "COMPLETED"], success |-> TRUE,
              raised |-> FALSE]

\* cmd.execute() of a sub-command, by its class: the result, or the exception
Sub_execute(w, c, o) ==
    IF c \in SpaCommands
    THEN LET r == SPA_execute(w, c, o)
         IN  [w |-> r.w, success |-> r.success, raised |-> FALSE]
    ELSE Plain_execute(w, c, o)

\* cmd.can_undo() of a sub-command, by its class: the plain command keeps
\* nothing to restore
Sub_can_undo(w, c) ==
    c \in SpaCommands /\ SPA_can_undo(w, c)

\* the loop "for cmd in <list>: if cmd.can_undo(): await cmd.undo()"
RECURSIVE UndoEach(_, _, _)
UndoEach(w, list, uo) ==
    IF list = <<>> THEN w
    ELSE LET c == Head(list)
             w1 == IF Sub_can_undo(w, c) THEN SPA_undo(w, c, uo[c]).w ELSE w
         IN  UndoEach(w1, Tail(list), uo)

\* CompositeCommand._rollback_executed_commands
rollback_executed_commands(w, c, uo) ==
    UndoEach(w, Reverse(w.executed_commands[c]), uo)

\* CompositeCommand._rollback_all_commands
rollback_all_commands(w, c, uo) ==
    UndoEach(w, Reverse(sub_commands[c]), uo)

\* CompositeCommand.can_undo
Composite_can_undo(w, c) ==
    \E i \in 1..Len(w.executed_commands[c]) :
        Sub_can_undo(w, w.executed_commands[c][i])

\* CompositeCommand.execute, sequential strategy: the loop from sub-command i on
RECURSIVE SequentialFrom(_, _, _, _, _)
SequentialFrom(w, c, i, outs, uo) ==
    IF i > Len(sub_commands[c])
    THEN [w |-> [w EXCEPT !.status[c] = "COMPLETED"], success |-> TRUE]
    ELSE LET r  == SPA_execute(w, sub_commands[c][i], outs[i])
             w1 == [r.w EXCEPT !.executed_commands[c] =
                                   Append(@, sub_commands[c][i])]
         IN  IF ~r.success
             THEN [w |-> rollback_executed_commands(w1, c, uo), success |-> FALSE]
             ELSE SequentialFrom(w1, c, i + 1, outs, uo)

\* CompositeCommand.execute, parallel strategy: every sub-command's execute runs
\* (gather with return_exceptions=True); the sub-commands are distinct objects
\* on distinct targets, so the order in which their steps interleave does not
\* show in the result.  first is what the loop over the results meets first:
\* an exception, a failure result, or neither
RECURSIVE ParallelRun(_, _, _, _)
ParallelRun(w, c, i, outs) ==
    IF i > Len(sub_commands[c])
    THEN [w |-> w, first |-> "none"]
    ELSE LET r    == Sub_execute(w, sub_commands[c][i], outs[i])
             rest == ParallelRun(r.w, c, i + 1, outs)
         IN  [w |-> rest.w,
              first |-> CASE r.raised   -> "exception"
                          [] ~r.success -> "failure"
                          [] OTHER      -> rest.first]

\* CompositeCommand.execute, parallel strategy: gather enters the execute body
\* of every sub-command before any of them has completed
GatherEntered(w, c) ==
    [w EXCEPT !.unmet = @ \cup {s \in Subs(c) : ~can_execute(w, s)}]

\* CompositeCommand.execute
Composite_execute(w, c, outs, uo) ==
    LET ran == BodyEntered(w, c)
    IN  IF execution_strategy[c] = "sequential"
        THEN SequentialFrom(ran, c, 1, outs, uo)
        ELSE LET r == ParallelRun(GatherEntered(ran, c), c, 1, outs)
             IN  CASE r.first = "exception" ->
                        [w |-> r.w, success |-> FALSE]
                   [] r.first = "failure" ->
                        [w |-> rollback_all_commands(r.w, c, uo),
                         success |-> FALSE]
                   [] OTHER ->
                        [w |-> [r.w EXCEPT !.status[c] = "COMPLETED"],
                         success |-> TRUE]

\* CompositeCommand.undo
Composite_undo(w, c, uo) ==
    IF w.executed_commands[c] = <<>>
    THEN [w |-> w, success |-> FALSE]
    ELSE LET ran == [w EXCEPT !.undone = Append(@, <<c, w.status[c]>>)]
             w1  == UndoEach(ran, Reverse(w.executed_commands[c]), uo)
         IN  [w |-> [w1 EXCEPT !.status[c] = "UNDONE"], success |-> TRUE]

\* command.execute(), command.undo(), command.can_undo() by the command's class
Execute(w, c, outs, uo) ==
    IF c \in SpaCommands THEN SPA_execute(w, c, outs[1])
    ELSE Composite_execute(w, c, outs, uo)
Undo(w, c, uo) ==
    IF c \in SpaCommands THEN SPA_undo(w, c, uo[c])
    ELSE Composite_undo(w, c, uo)
CanUndo(w, c) ==
    IF c \in SpaCommands THEN SPA_can_undo(w, c) ELSE Composite_can_undo(w, c)

(***************************************************************************)
(* CommandInvoker                                                          *)
(***************************************************************************)
\* the fields of the command objects and the device, as a command call sees them
World ==
    [status |-> status, previous_value |-> previous_value,
     executed_commands |-> executed_commands,
     parameter_value |-> parameter_value, last_writer |-> last_writer,
     executed |-> <<>>, undone |-> <<>>, unmet |-> {}, faults |-> fault_count]

SetWorld(w) ==
    /\ status' = w.status
    /\ previous_value' = w.previous_value
    /\ executed_commands' = w.executed_commands
    /\ parameter_value' = w.parameter_value
    /\ last_writer' = w.last_writer
    /\ fault_count' = w.faults

worldVars == <<status, previous_value, executed_commands, parameter_value,
               last_writer, fault_count>>

\* the device outcomes to choose for a call on c, per sub-command: those of
\* its class (the plain command is never undone: its can_undo() is false)
ExecOutsTable ==
    [c \in Invocable |->
        IF c \in SpaCommands THEN [1..1 -> ExecOutcomes]
        ELSE {f \in [1..Len(sub_commands[c]) -> ExecOutcomes \cup PlainOutcomes] :
                \A i \in 1..Len(sub_commands[c]) :
                    f[i] \in (IF sub_commands[c][i] \in SpaCommands
                              THEN ExecOutcomes ELSE PlainOutcomes)}]
UndoOutsTable ==
    [c \in Invocable |->
        {f \in [Subs(c) -> UndoOutcomes] :
            \A q \in Subs(c) \ SpaCommands : f[q] = "ok"}]
ExecOuts(c) == ExecOutsTable[c]
UndoOuts(c) == UndoOutsTable[c]
\* the outcomes to choose for an execute of c: the undo outcomes count only
\* where an undo can run, in the rollback of a composite after a failure
ExecChoicesTable ==
    [c \in Invocable |->
        {p \in ExecOuts(c) \X UndoOuts(c) :
            (c \in SpaCommands \/ \A i \in DOMAIN p[1] : p[1][i] = "ok")
                => \A q \in DOMAIN p[2] : p[2][q] = "ok"}]
ExecChoices(c) == ExecChoicesTable[c]
\* the faults a choice of outcomes holds: no more than the model has left
Faults(f) == Cardinality({x \in DOMAIN f : f[x] # "ok"})
WithinFaults(outs, uo) == fault_count + Faults(outs) + Faults(uo) <= MaxFaults

NoOp ==
    [op |-> "none", cmd |-> "none", success |-> FALSE, refused |-> FALSE,
     can_undo |-> FALSE, executed |-> <<>>, undone |-> <<>>, unmet |-> {}]
NoSnapshot ==
    [phase |-> "none", cmd |-> "none", success |-> FALSE, can_undo |-> FALSE,
     parameter_value |-> [t \in Targets |-> None],
     last_writer |-> [t \in Targets |-> "none"], redo_stack |-> <<>>]

\* execute_command on success: history, with the size limit
HistoryAfterExecute(history, c) ==
    LET h == Append(history, c)
    IN  IF Len(h) > max_history_size THEN Tail(h) ELSE h

\* execute_command on success: the undo stack and the redo stack
UndoStackAfterExecute(w, stack, c) ==
    IF CanUndo(w, c) THEN Append(stack, c) ELSE stack
RedoStackKept(w, stack, c) ==
    stack
RedoStackAfterExecute(w, stack, c) ==
    IF CanUndo(w, c) THEN <<>> ELSE stack

\* undo_last_command / redo_last_command: the stack the command was popped from,
\* when the undo / redo failed
StackDropped(popped, c) ==
    popped
StackAfterFailure(popped, c) ==
    Append(popped, c)

\* undo_last_command on success: the redo stack
RedoStackAfterUndo(stack, c) ==
    Append(stack, c)

\* redo_last_command on success: the undo stack
UndoStackAfterRedo(stack, c) ==
    Append(stack, c)

Front(s) == SubSeq(s, 1, Len(s) - 1)
Last(s) == s[Len(s)]

\* execute_command(c), up to the await of command.execute()
ExecuteCommandBegin(c) ==
    /\ invoker_pc = "idle"
    /\ op_count < MaxOps
    /\ op_count' = op_count + 1
    /\ undo_snapshot' = NoSnapshot
    /\ IF ~can_execute(World, c)
       THEN /\ last_op' = [NoOp EXCEPT !.op = "execute", !.cmd = c,
                                       !.refused = TRUE]
            /\ UNCHANGED <<worldVars, active_commands, invoker_pc,
                           current_command>>
       ELSE /\ active_commands' = active_commands \cup {c}
            /\ status' = [status EXCEPT ![c] = "EXECUTING"]
            /\ invoker_pc' = "executing"
            /\ current_command' = c
            /\ UNCHANGED <<previous_value, executed_commands, parameter_value,
                           last_writer, fault_count, last_op>>
    /\ UNCHANGED <<command_history, undo_stack, redo_stack>>
    /\ UNCHANGED notCmdVars

\* execute_command, from the result of command.execute() to the return
ExecuteCommandFinish ==
    /\ invoker_pc = "executing"
    /\ LET c == current_command IN
       \E p \in ExecChoices(c) :
         LET outs == p[1]
             uo == p[2]
             r == Execute(World, c, outs, uo) IN
           /\ WithinFaults(outs, uo)
           /\ SetWorld(r.w)
           /\ IF r.success
              THEN /\ command_history' = HistoryAfterExecute(command_history, c)
                   /\ undo_stack' = UndoStackAfterExecute(r.w, undo_stack, c)
                   /\ redo_stack' = RedoStackAfterExecute(r.w, redo_stack, c)
              ELSE UNCHANGED <<command_history, undo_stack, redo_stack>>
           /\ active_commands' = active_commands \ {c}
           /\ last_op' = [op |-> "execute", cmd |-> c, success |-> r.success,
                          refused |-> FALSE, can_undo |-> CanUndo(r.w, c),
                          executed |-> r.w.executed, undone |-> r.w.undone,
                          unmet |-> r.w.unmet]
    /\ invoker_pc' = "idle"
    /\ current_command' = "none"
    /\ UNCHANGED <<op_count, undo_snapshot>>
    /\ UNCHANGED notCmdVars

\* undo_last_command
UndoLastCommand ==
    /\ invoker_pc = "idle"
    /\ op_count < MaxOps
    /\ op_count' = op_count + 1
    /\ IF undo_stack = <<>>
       THEN /\ last_op' = [NoOp EXCEPT !.op = "undo"]
            /\ undo_snapshot' = NoSnapshot
            /\ UNCHANGED <<worldVars, undo_stack, redo_stack>>
       ELSE LET c == Last(undo_stack)
                popped == Front(undo_stack)
            IN  \E uo \in UndoOuts(c) :
                  LET r == Undo(World, c, uo) IN
                    /\ WithinFaults(<<>>, uo)
                    /\ SetWorld(r.w)
                    /\ IF r.success
                       THEN /\ undo_stack' = popped
                            /\ redo_stack' = RedoStackAfterUndo(redo_stack, c)
                       ELSE /\ undo_stack' = StackAfterFailure(popped, c)
                            /\ UNCHANGED redo_stack
                    /\ last_op' = [op |-> "undo", cmd |-> c,
                                   success |-> r.success, refused |-> FALSE,
                                   can_undo |-> CanUndo(r.w, c),
                                   executed |-> r.w.executed,
                                   undone |-> r.w.undone,
                                   unmet |-> r.w.unmet]
                    /\ undo_snapshot' =
                          [phase |-> "undone", cmd |-> c, success |-> r.success,
                           can_undo |-> CanUndo(World, c),
                           parameter_value |-> parameter_value,
                           last_writer |-> last_writer,
                           redo_stack |-> redo_stack]
    /\ UNCHANGED <<command_history, active_commands, invoker_pc, current_command>>
    /\ UNCHANGED notCmdVars

\* redo_last_command
RedoLastCommand ==
    /\ invoker_pc = "idle"
    /\ op_count < MaxOps
    /\ op_count' = op_count + 1
    /\ undo_snapshot' = IF undo_snapshot.phase = "undone"
                         THEN [undo_snapshot EXCEPT !.phase = "redone"]
                         ELSE NoSnapshot
    /\ IF redo_stack = <<>>
       THEN /\ last_op' = [NoOp EXCEPT !.op = "redo"]
            /\ UNCHANGED <<worldVars, undo_stack, redo_stack>>
       ELSE LET c == Last(redo_stack)
                popped == Front(redo_stack)
            IN  \E p \in ExecChoices(c) :
                  LET outs == p[1]
             uo == p[2]
             r == Execute(World, c, outs, uo) IN
                    /\ WithinFaults(outs, uo)
                    /\ SetWorld(r.w)
                    /\ IF r.success
                       THEN /\ redo_stack' = popped
                            /\ undo_stack' = UndoStackAfterRedo(undo_stack, c)
                       ELSE /\ redo_stack' = StackAfterFailure(popped, c)
                            /\ UNCHANGED undo_stack
                    /\ last_op' = [op |-> "redo", cmd |-> c,
                                   success |-> r.success, refused |-> FALSE,
                                   can_undo |-> CanUndo(r.w, c),
                                   executed |-> r.w.executed,
                                   undone |-> r.w.undone,
                                   unmet |-> r.w.unmet]
    /\ UNCHANGED <<command_history, active_commands, invoker_pc, current_command>>
    /\ UNCHANGED notCmdVars

NextCommands ==
    \/ \E c \in Invocable : ExecuteCommandBegin(c)
    \/ ExecuteCommandFinish
    \/ UndoLastCommand
    \/ RedoLastCommand

(***************************************************************************)
(* PipelineTemplate                                                        *)
(***************************************************************************)
\* PipelineStage values, in the order execute_pipeline calls _execute_stage.
StageOrderSwapped == <<"monitor", "plan", "analyze", "execute", "knowledge_update">>
StageOrder == <<"monitor", "analyze", "plan", "execute", "knowledge_update">>

NumStages == Len(StageOrder)

ErrorStrategies == {"abort", "continue", "retry"}

\* max_retries default of _retry_stage
max_retries == 3

\* What _execute_stage does with a stage failure (after recording the metric):
\* "raise" re-raises, "next" returns to execute_pipeline, "retry" enters _retry_stage.
OnStageFailureNoAbort(strategy) ==
    IF strategy = "retry" THEN "retry" ELSE "next"
OnStageFailureRaise(strategy) ==
    "raise"
OnStageFailure(strategy) ==
    IF strategy = "abort" THEN "raise"
    ELSE IF strategy = "continue" THEN "next"
    ELSE IF strategy = "retry" THEN "retry"
    ELSE "next"

\* What _retry_stage does when the stage body fails again in attempt a (0-based).
OnRetryFailure(a) ==
    IF a = max_retries - 1 THEN "raise" ELSE "again"

\* context.add_metric, guarded by self.performance_monitoring
AddMetric(ms, stage, success) ==
    IF performance_monitoring
    THEN Append(ms, [stage |-> stage, success |-> success])
    ELSE ms

configVars == <<error_handling_strategy, hooks_enabled, performance_monitoring>>

\* `if self.hooks_enabled: await self.<hook>(context)`: the hooks a call site
\* of execute_pipeline invokes
HooksInvokedAlways(enabled, hook) == <<hook>>
HooksInvoked(enabled, hook) == IF enabled THEN <<hook>> ELSE <<>>

\* execute_pipeline: the pre-execution hook (may raise in a subclass)
PreExecutionHook ==
    /\ pc = "pre_hook"
    /\ hook_calls' = hook_calls \o HooksInvoked(hooks_enabled, "pre_execution")
    /\ \E ok \in BOOLEAN :
        /\ (~hooks_enabled) => ok
        /\ IF ok
           THEN pc' = "call" /\ UNCHANGED raise_cause
           ELSE pc' = "except" /\ raise_cause' = "hook"
    /\ UNCHANGED <<notPipeVars, configVars, last_stage_end, backoff_delays, call_idx, current_stage, attempt, stage_metrics,
                   stage_starts, running, commands_sent, commands_completed,
                   failed_stage>>

\* _execute_stage: set context.current_stage and enter the stage body
EnterStage ==
    /\ pc = "call"
    /\ current_stage' = StageOrder[call_idx]
    /\ stage_starts' = Append(stage_starts, StageOrder[call_idx])
    /\ running' = running \cup {StageOrder[call_idx]}
    /\ pc' = "body"
    /\ UNCHANGED <<notPipeVars, configVars, hook_calls, last_stage_end, backoff_delays, call_idx, attempt, stage_metrics, commands_sent,
                   commands_completed, failed_stage, raise_cause>>

\* execute_phase of the concrete pipelines: a command is handed to the executor
DispatchCommand ==
    /\ pc \in {"body", "retry_body"}
    /\ current_stage = "execute"
    /\ commands_sent < MaxCommands
    /\ commands_sent' = commands_sent + 1
    /\ UNCHANGED <<notPipeVars, configVars, hook_calls, last_stage_end, backoff_delays, pc, call_idx, current_stage, attempt, stage_metrics,
                   stage_starts, running, commands_completed, failed_stage,
                   raise_cause>>

\* the awaited executor call ends (with a result or an error)
CompleteCommand ==
    /\ pc \in {"body", "retry_body"}
    /\ commands_completed < commands_sent
    /\ commands_completed' = commands_completed + 1
    /\ UNCHANGED <<notPipeVars, configVars, hook_calls, last_stage_end, backoff_delays, pc, call_idx, current_stage, attempt, stage_metrics,
                   stage_starts, running, commands_sent, failed_stage, raise_cause>>

\* control returns from _execute_stage to execute_pipeline: the next call, or
\* the post-execution hook after the fifth
Advance ==
    IF call_idx = NumStages
    THEN pc' = "post_hook" /\ UNCHANGED call_idx
    ELSE pc' = "call" /\ call_idx' = call_idx + 1

\* _execute_stage: the stage body returned
StageSucceeds ==
    /\ pc = "body"
    /\ commands_completed = commands_sent
    /\ stage_metrics' = AddMetric(stage_metrics, current_stage, TRUE)
    /\ running' = running \ {current_stage}
    /\ last_stage_end' = [stage |-> current_stage, success |-> TRUE]
    /\ Advance
    /\ UNCHANGED <<notPipeVars, configVars, hook_calls, backoff_delays, current_stage, attempt, stage_starts, commands_sent,
                   commands_completed, failed_stage, raise_cause>>

\* _execute_stage: the stage body raised
StageFails ==
    /\ pc = "body"
    /\ commands_completed = commands_sent
    /\ stage_metrics' = AddMetric(stage_metrics, current_stage, FALSE)
    /\ running' = running \ {current_stage}
    /\ failed_stage' = IF failed_stage = "none" THEN current_stage ELSE failed_stage
    /\ LET what == OnStageFailure(error_handling_strategy) IN
        /\ what = "raise" =>
              /\ pc' = "except" /\ raise_cause' = "stage"
              /\ last_stage_end' = [stage |-> current_stage, success |-> FALSE]
              /\ UNCHANGED <<call_idx, attempt>>
        /\ what = "next" =>
              /\ Advance
              /\ last_stage_end' = [stage |-> current_stage, success |-> FALSE]
              /\ UNCHANGED <<attempt, raise_cause>>
        /\ what = "retry" =>
              /\ pc' = "retry_sleep" /\ attempt' = 0
              /\ UNCHANGED <<call_idx, raise_cause, last_stage_end>>
    /\ backoff_delays' = <<>>
    /\ UNCHANGED <<notPipeVars, configVars, hook_calls, current_stage, stage_starts, commands_sent,
                   commands_completed>>

\* _retry_stage: asyncio.sleep(2 ** attempt)
BackoffLinear(a) == a + 1
BackoffDelay(a) == 2 ^ a

\* _retry_stage: the backoff sleep ends and the stage body is entered again
RetryEnter ==
    /\ pc = "retry_sleep"
    /\ backoff_delays' = Append(backoff_delays, BackoffDelay(attempt))
    /\ stage_starts' = Append(stage_starts, current_stage)
    /\ running' = running \cup {current_stage}
    /\ pc' = "retry_body"
    /\ UNCHANGED <<notPipeVars, configVars, hook_calls, last_stage_end, call_idx, current_stage, attempt, stage_metrics,
                   commands_sent, commands_completed, failed_stage, raise_cause>>

\* _retry_stage: the retried body returned
RetrySucceeds ==
    /\ pc = "retry_body"
    /\ commands_completed = commands_sent
    /\ running' = running \ {current_stage}
    /\ backoff_delays' = <<>>
    /\ last_stage_end' = [stage |-> current_stage, success |-> TRUE]
    /\ Advance
    /\ UNCHANGED <<notPipeVars, configVars, hook_calls, current_stage, attempt, stage_metrics, stage_starts,
                   commands_sent, commands_completed, failed_stage, raise_cause>>

\* _retry_stage: the retried body raised
RetryFails ==
    /\ pc = "retry_body"
    /\ commands_completed = commands_sent
    /\ running' = running \ {current_stage}
    /\ LET what == OnRetryFailure(attempt) IN
        /\ what = "raise" =>
              /\ pc' = "except" /\ raise_cause' = "retry"
              /\ last_stage_end' = [stage |-> current_stage, success |-> FALSE]
              /\ UNCHANGED <<call_idx, attempt>>
        /\ what = "again" =>
              /\ pc' = "retry_sleep" /\ attempt' = attempt + 1
              /\ UNCHANGED <<call_idx, raise_cause, last_stage_end>>
        /\ what = "next" =>
              /\ Advance
              /\ last_stage_end' = [stage |-> current_stage, success |-> FALSE]
              /\ UNCHANGED <<attempt, raise_cause>>
    /\ UNCHANGED <<notPipeVars, configVars, hook_calls, backoff_delays, current_stage, stage_metrics, stage_starts,
                   commands_sent, commands_completed, failed_stage>>

\* execute_pipeline: the post-execution hook, then return context
PostExecutionHook ==
    /\ pc = "post_hook"
    /\ hook_calls' = hook_calls \o HooksInvoked(hooks_enabled, "post_execution")
    /\ \E ok \in BOOLEAN :
        /\ (~hooks_enabled) => ok
        /\ IF ok
           THEN pc' = "returned" /\ UNCHANGED raise_cause
           ELSE pc' = "except" /\ raise_cause' = "hook"
    /\ UNCHANGED <<notPipeVars, configVars, last_stage_end, backoff_delays, call_idx, current_stage, attempt, stage_metrics,
                   stage_starts, running, commands_sent, commands_completed,
                   failed_stage>>

\* execute_pipeline: the except block (error hook, then re-raise)
ErrorHook ==
    /\ pc = "except"
    /\ pc' = "raised"
    /\ hook_calls' = hook_calls \o HooksInvoked(hooks_enabled, "on_error")
    /\ UNCHANGED <<notPipeVars, configVars, last_stage_end, backoff_delays, call_idx, current_stage, attempt, stage_metrics,
                   stage_starts, running, commands_sent, commands_completed,
                   failed_stage, raise_cause>>

NextPipeline ==
    \/ PreExecutionHook
    \/ EnterStage
    \/ DispatchCommand
    \/ CompleteCommand
    \/ StageSucceeds
    \/ StageFails
    \/ RetryEnter
    \/ RetrySucceeds
    \/ RetryFails
    \/ PostExecutionHook
    \/ ErrorHook

(***************************************************************************)
(* DigitalTwinEventBus                                                     *)
(***************************************************************************)
\* EventType values the model publishes
EventTypes == {"sensor_anomaly", "action_failed"}
\* the observers, and the coroutines that call publish
Observers == {"o1", "o2"}
Publishers == {"p1", "p2"}

\* EventObserver.get_interested_events
interested_events ==
    [o \in Observers |->
        IF o = "o1" THEN {"sensor_anomaly"}
        ELSE {"sensor_anomaly", "action_failed"}]

\* self._event_filters and self._event_transformers, as registered
event_filters == <<"f1", "f2">>
event_transformers == <<"t1">>

\* publish calls the model makes
MaxEvents == 3
\* self._max_history_size of the bus
bus_max_history_size == 2

\* what a filter call does: returns true, returns false, raises
FilterVerdicts == {"accept", "reject", "raise"}
\* what a transformer call does: returns the changed event, raises
TransformerOutcomes == {"ok", "raise"}
\* an on_event task: not created, created and not ended (create_task hands it
\* to the event loop, which enters on_event when publish awaits gather),
\* returned, raised
TaskStates == {"none", "running", "done", "failed"}

NoEvent == [id |-> 0, type |-> "none"]
\* a publish call: its event, whether a filter returned false, whether a filter
\* that was called raised, and the transformers that returned
NoPublish ==
    [publisher |-> "none", event |-> NoEvent, rejected |-> FALSE,
     filter_raised |-> FALSE, transformers_applied |-> 0]
\* a publish call that returned: what it returned, and how the on_event tasks
\* it had created ended
NoReturn ==
    [publisher |-> "none", event |-> NoEvent, result |-> "none",
     outcomes |-> [o \in Observers |-> "none"]]

Range(f) == {f[x] : x \in DOMAIN f}

\* publish, the filter loop: the first filter that returns false (0 if none);
\* a filter that raises is logged and the loop goes on
FirstReject(fv) ==
    IF \E i \in DOMAIN fv : fv[i] = "reject"
    THEN CHOOSE i \in DOMAIN fv :
            fv[i] = "reject" /\ \A j \in 1..(i - 1) : fv[j] # "reject"
    ELSE 0
\* the filters called: up to the first that rejects
FiltersCalled(fv) ==
    IF FirstReject(fv) = 0 THEN fv ELSE SubSeq(fv, 1, FirstReject(fv))
\* the event goes on to the transformers: no filter returned false
FiltersPassFirstOnly(fv) ==
    fv = <<>> \/ fv[1] # "reject"
FiltersPass(fv) ==
    FirstReject(fv) = 0

\* publish, the transformer loop: a transformer that raises leaves the event
TransformersApplied(tv) == Cardinality({j \in DOMAIN tv : tv[j] = "ok"})

\* notify: the history, with its size limit
HistoryKeepsOldest(history, e) ==
    IF Len(history) >= bus_max_history_size THEN history ELSE Append(history, e)
HistoryAfterNotify(history, e) ==
    LET h == Append(history, e)
    IN  IF Len(h) > bus_max_history_size THEN Tail(h) ELSE h

\* s[-n:] of Python
LastN(s, n) ==
    IF n = 0 \/ Len(s) <= n THEN s ELSE SubSeq(s, Len(s) - n + 1, Len(s))
\* get_event_history(event_type, limit); event_type "None" for no type
get_event_history(event_type, limit) ==
    IF event_type # "None"
    THEN LastN(SelectSeq(event_history, LAMBDA e : e.type = event_type), limit)
    ELSE LastN(event_history, limit)

\* asyncio.gather(*tasks, return_exceptions=True): pending until every task has
\* returned or raised, then it returns
GatherOutcomeRaising(ts) ==
    IF \E o \in Observers : ts[o] = "failed" THEN "raised"
    ELSE IF \A o \in Observers : ts[o] \in {"none", "done"} THEN "returned"
    ELSE "pending"
GatherOutcome(ts) ==
    IF \A o \in Observers : ts[o] \in {"none", "done", "failed"}
    THEN "returned" ELSE "pending"

\* subscribe(observer): the lists hold an observer once, and their order shows
\* in nothing the bus does
Subscribe(o) ==
    /\ \E t \in interested_events[o] : o \notin observers[t]
    /\ observers' = [t \in EventTypes |->
                        IF t \in interested_events[o]
                        THEN observers[t] \cup {o} ELSE observers[t]]
    /\ last_publish' = NoPublish
    /\ last_return' = NoReturn
    /\ UNCHANGED <<event_history, metrics, pub_pc, pub_event, tasks>>
    /\ UNCHANGED publish_count
    /\ UNCHANGED notBusVars

\* unsubscribe(observer)
Unsubscribe(o) ==
    /\ \E t \in EventTypes : o \in observers[t]
    /\ observers' = [t \in EventTypes |-> observers[t] \ {o}]
    /\ last_publish' = NoPublish
    /\ last_return' = NoReturn
    /\ UNCHANGED <<event_history, metrics, pub_pc, pub_event, tasks>>
    /\ UNCHANGED publish_count
    /\ UNCHANGED notBusVars

\* publish(event) by publisher p, up to the await of gather in notify: the
\* filters, the transformers, the history and the tasks of the observers
PublishBegin(p, t, fv, tv) ==
    /\ pub_pc[p] = "idle"
    /\ publish_count < MaxEvents
    /\ publish_count' = publish_count + 1
    /\ fv = FiltersCalled(fv)
    /\ LET e == [id |-> publish_count + 1, type |-> t]
           published == [metrics EXCEPT !.events_published = @ + 1]
           call == [NoPublish EXCEPT
                      !.publisher = p,
                      !.event = e,
                      !.rejected = \E i \in DOMAIN fv : fv[i] = "reject",
                      !.filter_raised = \E i \in DOMAIN fv : fv[i] = "raise"]
           created == [o \in Observers |->
                          IF o \in observers[t] THEN "running" ELSE "none"]
       IN  IF ~FiltersPass(fv)
           THEN /\ metrics' = [published EXCEPT !.events_filtered = @ + 1]
                /\ last_return' = [publisher |-> p, event |-> e, result |-> "false",
                                    outcomes |-> [o \in Observers |-> "none"]]
                /\ last_publish' = call
                /\ UNCHANGED <<event_history, pub_pc, pub_event, tasks>>
           ELSE /\ event_history' = HistoryAfterNotify(event_history, e)
                /\ tasks' = [tasks EXCEPT ![p] = created]
                /\ last_publish' =
                      [call EXCEPT !.transformers_applied = TransformersApplied(tv)]
                /\ IF observers[t] = {}
                   THEN /\ metrics' = [published EXCEPT
                                         !.observer_notifications = @ + 1]
                        /\ last_return' = [publisher |-> p, event |-> e,
                                            result |-> "true", outcomes |-> created]
                        /\ UNCHANGED <<pub_pc, pub_event>>
                   ELSE /\ metrics' = published
                        /\ pub_pc' = [pub_pc EXCEPT ![p] = "gathering"]
                        /\ pub_event' = [pub_event EXCEPT ![p] = e]
                        /\ last_return' = NoReturn
    /\ UNCHANGED observers
    /\ UNCHANGED notBusVars

\* on_event returns
ObserverReturns(p, o) ==
    /\ tasks[p][o] = "running"
    /\ tasks' = [tasks EXCEPT ![p][o] = "done"]
    /\ last_publish' = NoPublish
    /\ last_return' = NoReturn
    /\ UNCHANGED <<observers, event_history, metrics, pub_pc, pub_event>>
    /\ UNCHANGED publish_count
    /\ UNCHANGED notBusVars

\* on_event raises
ObserverRaises(p, o) ==
    /\ tasks[p][o] = "running"
    /\ tasks' = [tasks EXCEPT ![p][o] = "failed"]
    /\ last_publish' = NoPublish
    /\ last_return' = NoReturn
    /\ UNCHANGED <<observers, event_history, metrics, pub_pc, pub_event>>
    /\ UNCHANGED publish_count
    /\ UNCHANGED notBusVars

\* publish, from the end of gather to the return
GatherReturns(p) ==
    /\ pub_pc[p] = "gathering"
    /\ GatherOutcome(tasks[p]) # "pending"
    /\ LET returned == GatherOutcome(tasks[p]) = "returned"
       IN  /\ metrics' = IF returned
                         THEN [metrics EXCEPT !.observer_notifications = @ + 1]
                         ELSE [metrics EXCEPT !.notification_errors = @ + 1]
           /\ last_return' = [publisher |-> p, event |-> pub_event[p],
                              result |-> IF returned THEN "true" ELSE "false",
                              outcomes |-> tasks[p]]
    /\ pub_pc' = [pub_pc EXCEPT ![p] = "idle"]
    /\ pub_event' = [pub_event EXCEPT ![p] = NoEvent]
    /\ tasks' = [tasks EXCEPT ![p] = [o \in Observers |-> "none"]]
    /\ last_publish' = NoPublish
    /\ UNCHANGED <<observers, event_history>>
    /\ UNCHANGED publish_count
    /\ UNCHANGED notBusVars

\* clear_metrics(): a plain method, which a coroutine may call while a publish
\* call of another one waits for its observers; clearing counters that are all
\* zero changes nothing and is left out
clear_metrics ==
    /\ \E k \in DOMAIN metrics : metrics[k] # 0
    /\ metrics' = [k \in DOMAIN metrics |-> 0]
    /\ last_publish' = NoPublish
    /\ last_return' = NoReturn
    /\ UNCHANGED <<observers, event_history, pub_pc, pub_event, tasks>>
    /\ UNCHANGED publish_count
    /\ UNCHANGED notBusVars

NextBus ==
    \/ \E o \in Observers : Subscribe(o)
    \/ \E o \in Observers : Unsubscribe(o)
    \/ \E p \in Publishers, t \in EventTypes,
          fv \in [1..Len(event_filters) -> FilterVerdicts],
          tv \in [1..Len(event_transformers) -> TransformerOutcomes] :
          PublishBegin(p, t, fv, tv)
    \/ \E p \in Publishers, o \in Observers : ObserverReturns(p, o)
    \/ \E p \in Publishers, o \in Observers : ObserverRaises(p, o)
    \/ \E p \in Publishers : GatherReturns(p)

\* the bus with its observers subscribed: publish calls and clear_metrics
NextBusMetrics ==
    \/ \E p \in Publishers, t \in EventTypes,
          fv \in [1..Len(event_filters) -> FilterVerdicts],
          tv \in [1..Len(event_transformers) -> TransformerOutcomes] :
          PublishBegin(p, t, fv, tv)
    \/ \E p \in Publishers, o \in Observers : ObserverReturns(p, o)
    \/ \E p \in Publishers, o \in Observers : ObserverRaises(p, o)
    \/ \E p \in Publishers : GatherReturns(p)
    \/ clear_metrics

(***************************************************************************)
(* Executor                                                                *)
(***************************************************************************)
\* the node ids plans are made for; node_repo.get_node_ips() has an address for
\* some of them
NodeIds == {"n1", "n2"}
node_ips == [n \in NodeIds |-> IF n = "n2" THEN "None" ELSE "10.0.0.1"]

\* @CircuitBreaker(fail_max=5, reset_timeout=60)
fail_max == 5
reset_timeout == 60

\* plans of one execute call, execute_command calls and seconds the model makes
MaxPlans == 3
MaxCalls == 6
MaxTime == 60

PlanLists == UNION {[1..k -> NodeIds] : k \in 0..MaxPlans}

NewBreaker == [state |-> "closed", fail_counter |-> 0, opened_at |-> 0]
NoEndpointFailure == [failures |-> 0, tripped_at |-> 0]
NoExecResult == [returned |-> FALSE, plans |-> <<>>, outcome |-> "none",
                 results |-> <<>>]

\* CircuitBreaker.call, before the guarded function: an open breaker refuses the
\* call until reset_timeout seconds have passed since it opened
BreakerAdmits(b, t) ==
    b.state # "open" \/ t >= b.opened_at + reset_timeout

\* CircuitBreaker.call, after the guarded function has returned or raised
BreakerAfter(b, outcome, t) ==
    IF outcome = "returned"
    THEN [state |-> "closed", fail_counter |-> 0, opened_at |-> b.opened_at]
    ELSE IF b.state = "open" \/ b.fail_counter + 1 >= fail_max
         THEN [state |-> "open", fail_counter |-> b.fail_counter + 1,
               opened_at |-> t]
         ELSE [b EXCEPT !.fail_counter = @ + 1]

\* what the breaker sees of execute_command: the function is an async def, and
\* calling it builds a coroutine object and returns it without running its body
GuardedCallOutcome == "returned"

\* the breaker after the calls of one dispatch loop
RECURSIVE BreakerAfterCalls(_, _, _)
BreakerAfterCalls(b, n, t) ==
    IF n = 0 THEN b
    ELSE BreakerAfterCalls(BreakerAfter(b, GuardedCallOutcome, t), n - 1, t)

\* execute, the loop over the plans: a plan whose node has no address is skipped
HasAddress(n) == node_ips[n] # "None"
Dispatched(plans) == SelectSeq(plans, HasAddress)
TasksOf(plans) ==
    [i \in 1..Len(Dispatched(plans)) |->
        [node |-> Dispatched(plans)[i], state |-> "running"]]

\* asyncio.gather(*tasks, return_exceptions=True): pending until every
\* coroutine has returned or raised; an exception is a value of the result
ExecGatherFailFast(ts) ==
    IF \E i \in DOMAIN ts : ts[i].state = "failed" THEN "raised"
    ELSE IF \A i \in DOMAIN ts : ts[i].state = "ok" THEN "returned"
    ELSE "pending"
ExecGather(ts) ==
    IF \A i \in DOMAIN ts : ts[i].state \in {"ok", "failed"}
    THEN "returned" ELSE "pending"

ResultsOf(ts) == [i \in DOMAIN ts |-> ts[i].state]

\* the run of failed calls to an endpoint, after one more call
EndpointAfter(e, failed, t) ==
    IF ~failed THEN NoEndpointFailure
    ELSE IF e.failures + 1 = fail_max
         THEN [failures |-> fail_max, tripped_at |-> t]
         ELSE IF e.failures >= fail_max THEN e
         ELSE [e EXCEPT !.failures = @ + 1]

\* execute(plans), up to the await of gather: every execute_command call goes
\* through the retry wrapper and the breaker and hands back its coroutine
ExecutorExecute(plans) ==
    /\ exec_pc = "idle"
    /\ calls_made + Len(Dispatched(plans)) <= MaxCalls
    /\ calls_made' = calls_made + Len(Dispatched(plans))
    /\ IF Dispatched(plans) # <<>> /\ ~BreakerAdmits(breaker, now)
       THEN \* the breaker raises in the dispatch loop, and execute with it
            /\ exec_result' = [returned |-> TRUE, plans |-> plans,
                               outcome |-> "raised", results |-> <<>>]
            /\ UNCHANGED <<breaker, exec_pc, exec_plans, exec_tasks>>
       ELSE /\ breaker' = BreakerAfterCalls(breaker, Len(Dispatched(plans)), now)
            /\ IF Dispatched(plans) = <<>>
               THEN /\ exec_result' = [returned |-> TRUE, plans |-> plans,
                                       outcome |-> "returned", results |-> <<>>]
                    /\ UNCHANGED <<exec_pc, exec_plans, exec_tasks>>
               ELSE /\ exec_pc' = "gathering"
                    /\ exec_plans' = plans
                    /\ exec_tasks' = TasksOf(plans)
                    /\ exec_result' = NoExecResult
    /\ UNCHANGED <<now, endpoint>>
    /\ UNCHANGED notExecVars

\* the body of execute_command: the POST to the node is answered
EndpointSucceeds(i) ==
    /\ i \in DOMAIN exec_tasks
    /\ exec_tasks[i].state = "running"
    /\ exec_tasks' = [exec_tasks EXCEPT ![i].state = "ok"]
    /\ endpoint' = [endpoint EXCEPT ![exec_tasks[i].node] =
                       EndpointAfter(@, FALSE, now)]
    /\ exec_result' = NoExecResult
    /\ UNCHANGED <<breaker, now, exec_pc, exec_plans, calls_made>>
    /\ UNCHANGED notExecVars

\* the body of execute_command: the POST fails (no connection, timeout, error
\* status); the except branch logs and raises again
EndpointFails(i) ==
    /\ i \in DOMAIN exec_tasks
    /\ exec_tasks[i].state = "running"
    /\ exec_tasks' = [exec_tasks EXCEPT ![i].state = "failed"]
    /\ endpoint' = [endpoint EXCEPT ![exec_tasks[i].node] =
                       EndpointAfter(@, TRUE, now)]
    /\ exec_result' = NoExecResult
    /\ UNCHANGED <<breaker, now, exec_pc, exec_plans, calls_made>>
    /\ UNCHANGED notExecVars

\* execute, from the end of gather to the return
ExecuteReturns ==
    /\ exec_pc = "gathering"
    /\ ExecGather(exec_tasks) # "pending"
    /\ exec_result' = [returned |-> TRUE, plans |-> exec_plans,
                       outcome |-> ExecGather(exec_tasks),
                       results |-> IF ExecGather(exec_tasks) = "returned"
                                   THEN ResultsOf(exec_tasks) ELSE <<>>]
    /\ exec_pc' = "idle"
    /\ exec_plans' = <<>>
    /\ exec_tasks' = <<>>
    /\ UNCHANGED <<breaker, now, endpoint, calls_made>>
    /\ UNCHANGED notExecVars

\* time passes
Tick ==
    /\ now + (reset_timeout \div 2) <= MaxTime
    /\ now' = now + (reset_timeout \div 2)
    /\ exec_result' = NoExecResult
    /\ UNCHANGED <<breaker, exec_pc, exec_plans, exec_tasks, endpoint, calls_made>>
    /\ UNCHANGED notExecVars

NextExecutor ==
    \/ \E plans \in PlanLists : ExecutorExecute(plans)
    \/ \E i \in 1..MaxPlans : EndpointSucceeds(i)
    \/ \E i \in 1..MaxPlans : EndpointFails(i)
    \/ ExecuteReturns
    \/ Tick

(***************************************************************************)
(* EmergencyShutdownCommand: execute and undo called on the command, the   *)
(* device calls of each taken one at a time                                *)
(***************************************************************************)
Components == {"pump", "valve", "tank"}
\* the lists self.component_ids may hold: one to three distinct components
ComponentLists ==
    {l \in UNION {[1..n -> Components] : n \in 1..3} :
        \A i, j \in 1..Len(l) : i # j => l[i] # l[j]}

\* _shutdown_component: the component stops, or the call returns a result with
\* shutdown_success false, or the call raises
ShutdownOutcomes == {"ok", "refused", "raise"}
\* _get_component_state and _restore_component: the call returns or raises
DeviceOutcomes == {"ok", "raise"}

NoShutdownResult == [op |-> "none", success |-> FALSE]

\* the keys of self.component_states, in insertion order (the order of
\* component_ids, every key being first stored by the loop over it)
Captured ==
    SelectSeq(component_ids, LAMBDA c : component_states[c] # None)

\* EmergencyShutdownCommand.can_undo
Shutdown_can_undo ==
    shutdown_status = "COMPLETED" /\ Captured # <<>>

\* where the loop over list goes after entry sd_idx: the next entry, or done
LoopDone(list) ==
    sd_idx = Len(list)

\* EmergencyShutdownCommand.execute is called
ShutdownExecuteBegin ==
    /\ sd_pc = "idle"
    /\ sd_calls < MaxShutdownCalls
    /\ sd_calls' = sd_calls + 1
    /\ sd_pc' = "capturing"
    /\ sd_idx' = 1
    /\ sd_log' = <<>>
    /\ sd_result' = NoShutdownResult
    /\ UNCHANGED <<component_ids, component_states, shutdown_status,
                   component_active>>
    /\ UNCHANGED notShutdownVars

\* execute, first loop: self.component_states[component_id] =
\* await self._get_component_state(component_id)
GetComponentState(o) ==
    /\ sd_pc = "capturing"
    /\ LET c == component_ids[sd_idx] IN
       IF o = "raise"
       THEN /\ shutdown_status' = "FAILED"
            /\ sd_result' = [op |-> "execute", success |-> FALSE]
            /\ sd_pc' = "idle"
            /\ sd_log' = Append(sd_log, <<"capture_raised", c>>)
            /\ UNCHANGED <<component_states, sd_idx>>
       ELSE /\ component_states' =
                   [component_states EXCEPT ![c] = Some(component_active[c])]
            /\ sd_log' = Append(sd_log, <<"capture", c>>)
            /\ IF LoopDone(component_ids)
               THEN sd_pc' = "shutting" /\ sd_idx' = 1
               ELSE sd_pc' = "capturing" /\ sd_idx' = sd_idx + 1
            /\ UNCHANGED <<shutdown_status, sd_result>>
    /\ UNCHANGED <<component_ids, component_active, sd_calls>>
    /\ UNCHANGED notShutdownVars

\* execute, second loop: result = await self._shutdown_component(component_id);
\* after the last component the command is COMPLETED; an exception ends the
\* loop in the except clause of execute
ShutdownComponent(o) ==
    /\ sd_pc = "shutting"
    /\ LET c == component_ids[sd_idx] IN
       IF o = "raise"
       THEN /\ shutdown_status' = "FAILED"
            /\ sd_result' = [op |-> "execute", success |-> FALSE]
            /\ sd_pc' = "idle"
            /\ sd_log' = Append(sd_log, <<"shutdown_raised", c>>)
            /\ UNCHANGED <<component_active, sd_idx>>
       ELSE /\ component_active' =
                   IF o = "ok" THEN [component_active EXCEPT ![c] = FALSE]
                   ELSE component_active
            /\ sd_log' = Append(sd_log, <<IF o = "ok" THEN "shutdown"
                                          ELSE "shutdown_refused", c>>)
            /\ IF LoopDone(component_ids)
               THEN /\ shutdown_status' = "COMPLETED"
                    /\ sd_result' = [op |-> "execute", success |-> TRUE]
                    /\ sd_pc' = "idle"
                    /\ UNCHANGED sd_idx
               ELSE /\ sd_idx' = sd_idx + 1
                    /\ UNCHANGED <<shutdown_status, sd_result, sd_pc>>
    /\ UNCHANGED <<component_ids, component_states, sd_calls>>
    /\ UNCHANGED notShutdownVars

\* EmergencyShutdownCommand.undo is called
ShutdownUndoBegin ==
    /\ sd_pc = "idle"
    /\ sd_calls < MaxShutdownCalls
    /\ sd_calls' = sd_calls + 1
    /\ sd_log' = <<>>
    /\ sd_idx' = 1
    /\ IF Captured = <<>>
       THEN /\ sd_result' = [op |-> "undo", success |-> FALSE]
            /\ UNCHANGED sd_pc
       ELSE /\ sd_result' = NoShutdownResult
            /\ sd_pc' = "restoring"
    /\ UNCHANGED <<component_ids, component_states, shutdown_status,
                   component_active>>
    /\ UNCHANGED notShutdownVars

\* undo, the loop over self.component_states.items():
\* result = await self._restore_component(component_id, previous_state)
RestoreComponent(o) ==
    /\ sd_pc = "restoring"
    /\ LET c == Captured[sd_idx] IN
       IF o = "raise"
       THEN /\ sd_result' = [op |-> "undo", success |-> FALSE]
            /\ sd_pc' = "idle"
            /\ sd_log' = Append(sd_log, <<"restore_raised", c>>)
            /\ UNCHANGED <<component_active, shutdown_status, sd_idx>>
       ELSE /\ component_active' =
                   [component_active EXCEPT ![c] = component_states[c][1]]
            /\ sd_log' = Append(sd_log, <<"restore", c>>)
            /\ IF LoopDone(Captured)
               THEN /\ shutdown_status' = "UNDONE"
                    /\ sd_result' = [op |-> "undo", success |-> TRUE]
                    /\ sd_pc' = "idle"
                    /\ UNCHANGED sd_idx
               ELSE /\ sd_idx' = sd_idx + 1
                    /\ UNCHANGED <<shutdown_status, sd_result, sd_pc>>
    /\ UNCHANGED <<component_ids, component_states, sd_calls>>
    /\ UNCHANGED notShutdownVars

NextShutdown ==
    \/ ShutdownExecuteBegin
    \/ \E o \in DeviceOutcomes : GetComponentState(o)
    \/ \E o \in ShutdownOutcomes : ShutdownComponent(o)
    \/ ShutdownUndoBegin
    \/ \E o \in DeviceOutcomes : RestoreComponent(o)

(***************************************************************************)
(* MultiSystemIntegrationManager and the LegacySystemAdapters it holds     *)
(***************************************************************************)
Systems == {"scada", "xml", "csv"}
Priorities == 1..MaxPriority

\* LegacySystemAdapter.sensor_mapping: the canonical sensor ids (modern_id) the
\* adapter of a system converts its raw data to, in the order of the raw data
sensor_mapping ==
    [s \in Systems |->
        CASE s = "scada" -> <<"pressure", "flow">>
          [] s = "xml"   -> <<"flow", "pressure">>
          [] OTHER       -> <<"flow">>]

\* LegacySystemAdapter.command_mapping: the systems with a mapping for the
\* target of the command
command_mapping == {"scada", "csv"}

NoRead == [called |-> FALSE, read_from |-> {}, readings |-> <<>>]
NoCommand == [called |-> FALSE, capable |-> <<>>, tried |-> <<>>,
              result |-> FALSE]

\* read_sensors / write_raw_command of a connected system: what the legacy
\* system does with the call
ReadOutcomes == {"ok", "raise"}
WriteOutcomes == {"ok", "rejected", "raise"}

\* add_system: a new key goes to the end of the dict, a known key keeps its place
add_system(s, p) ==
    /\ manager_calls < MaxManagerCalls
    /\ manager_calls' = manager_calls + 1
    /\ adapters' = IF \E i \in 1..Len(adapters) : adapters[i] = s
                   THEN adapters ELSE Append(adapters, s)
    /\ system_priorities' = [system_priorities EXCEPT ![s] = p]
    /\ last_read' = NoRead
    /\ last_command' = NoCommand
    /\ UNCHANGED connected
    /\ UNCHANGED notManagerVars

\* connect_all_systems: every adapter is connected or not, as its legacy
\* system answers (an exception counts as not connected and leaves the flag)
connect_all_systems(answers) ==
    /\ manager_calls < MaxManagerCalls
    /\ adapters # <<>>
    /\ manager_calls' = manager_calls + 1
    /\ connected' = [s \in Systems |->
                        IF \E i \in 1..Len(adapters) : adapters[i] = s
                        THEN CASE answers[s] = "ok"       -> TRUE
                               [] answers[s] = "rejected" -> FALSE
                               [] OTHER                   -> connected[s]
                        ELSE connected[s]]
    /\ last_read' = NoRead
    /\ last_command' = NoCommand
    /\ UNCHANGED <<adapters, system_priorities>>
    /\ UNCHANGED notManagerVars

\* LegacySystemAdapter.read_sensors with the metadata read_all_sensors adds: one
\* reading per mapped sensor, or nothing when the adapter is not connected or
\* the legacy system raises (read_all_sensors logs the exception and goes on)
ReadingsOf(s, o) ==
    IF ~connected[s] \/ o = "raise" THEN <<>>
    ELSE [i \in 1..Len(sensor_mapping[s]) |->
             [sensor_id |-> sensor_mapping[s][i], source_system |-> s,
              system_priority |-> system_priorities[s]]]

\* read_all_sensors: all_readings, the readings of every adapter in dict order
RECURSIVE AllReadings(_, _)
AllReadings(list, outs) ==
    IF list = <<>> THEN <<>>
    ELSE ReadingsOf(Head(list), outs[Head(list)]) \o AllReadings(Tail(list), outs)

\* _deduplicate_sensor_readings, one reading: sensor_map as the list of its
\* values in key order
KeepFirstSeen(sensor_map, reading) ==
    IF \E i \in 1..Len(sensor_map) : sensor_map[i].sensor_id = reading.sensor_id
    THEN sensor_map
    ELSE Append(sensor_map, reading)
DeduplicateStep(sensor_map, reading) ==
    IF \A i \in 1..Len(sensor_map) : sensor_map[i].sensor_id # reading.sensor_id
    THEN Append(sensor_map, reading)
    ELSE [i \in 1..Len(sensor_map) |->
             IF /\ sensor_map[i].sensor_id = reading.sensor_id
                /\ reading.system_priority > sensor_map[i].system_priority
             THEN reading ELSE sensor_map[i]]

\* _deduplicate_sensor_readings
RECURSIVE deduplicate_sensor_readings(_, _)
deduplicate_sensor_readings(sensor_map, readings) ==
    IF readings = <<>> THEN sensor_map
    ELSE deduplicate_sensor_readings(DeduplicateStep(sensor_map, Head(readings)),
                                     Tail(readings))

\* read_all_sensors
read_all_sensors(outs) ==
    /\ manager_calls < MaxManagerCalls
    /\ manager_calls' = manager_calls + 1
    /\ last_read' =
           [called |-> TRUE,
            read_from |-> {s \in Range(adapters) :
                              connected[s] /\ outs[s] = "ok"},
            readings |-> deduplicate_sensor_readings(<<>>,
                             AllReadings(adapters, outs))]
    /\ last_command' = NoCommand
    /\ UNCHANGED <<adapters, system_priorities, connected>>
    /\ UNCHANGED notManagerVars

\* execute_command_on_best_system: capable_systems, the connected systems in
\* dict order
CapableSystems == SelectSeq(adapters, LAMBDA s : connected[s])

\* capable_systems.sort(key=lambda x: x[2], reverse=True): a stable sort, the
\* systems of equal priority keep the order they had
RECURSIVE InsertByPriority(_, _)
InsertByPriority(sorted, s) ==
    IF sorted = <<>> THEN <<s>>
    ELSE IF system_priorities[Head(sorted)] >= system_priorities[s]
         THEN <<Head(sorted)>> \o InsertByPriority(Tail(sorted), s)
         ELSE <<s>> \o sorted
SortAsAdded(list) ==
    list
RECURSIVE SortByPriority(_)
SortByPriority(list) ==
    IF list = <<>> THEN <<>>
    ELSE InsertByPriority(SortByPriority(Front(list)), Last(list))

\* LegacySystemAdapter.write_control_command: False without a mapping for the
\* target, else what write_raw_command answers
write_control_command(s, o) ==
    IF s \notin command_mapping THEN "rejected" ELSE o

\* the loop over the sorted systems: the calls made, up to the first success
RECURSIVE TryInOrder(_, _)
TryInOrder(list, outs) ==
    IF list = <<>> THEN <<>>
    ELSE LET r == write_control_command(Head(list), outs[Head(list)])
         IN  IF r = "ok" THEN <<<<Head(list), r>>>>
             ELSE <<<<Head(list), r>>>> \o TryInOrder(Tail(list), outs)

\* execute_command_on_best_system
execute_command_on_best_system(outs) ==
    /\ manager_calls < MaxManagerCalls
    /\ manager_calls' = manager_calls + 1
    /\ LET tried == TryInOrder(SortByPriority(CapableSystems), outs)
       IN  last_command' =
               [called |-> TRUE, capable |-> CapableSystems, tried |-> tried,
                result |-> tried # <<>> /\ Last(tried)[2] = "ok"]
    /\ last_read' = NoRead
    /\ UNCHANGED <<adapters, system_priorities, connected>>
    /\ UNCHANGED notManagerVars

NextManager ==
    \/ \E s \in Systems, p \in Priorities : add_system(s, p)
    \/ \E answers \in [Systems -> WriteOutcomes] : connect_all_systems(answers)
    \/ \E outs \in [Systems -> ReadOutcomes] : read_all_sensors(outs)
    \/ \E outs \in [Systems -> WriteOutcomes] :
           execute_command_on_best_system(outs)

(***************************************************************************)
(* Analysis: the analyze methods of the four strategies ScenarioAnalyzer   *)
(* registers and Analyzer._analyze_no_timing.  Sensor values are in tenths *)
(* of their unit, scores and the drought severity in hundredths, the       *)
(* system load in percent.                                                 *)
(***************************************************************************)
\* the SensorData a strategy may be handed: values on either side of each
\* threshold of the two strategies
SensorValues ==
    [flow |-> {500, 900, 1100, 1300}, pressure |-> {20, 55},
     quality |-> {80, 65, 50, 30}]
SensorDataSet ==
    UNION {{[sensor_type |-> t, value |-> v] : v \in SensorValues[t]} :
              t \in {"flow", "pressure", "quality"}}
SensorLists == UNION {[1..n -> SensorDataSet] : n \in 0..MaxReadings}

\* the (min, max) get_threshold returns for a field that has a threshold
field_threshold == [min_val |-> 100, max_val |-> 500]

\* the fields of the dict Analyzer gets for one node: a null, a value on
\* either side of each end of the threshold, or a value of a field for which
\* get_threshold returns None
FieldSet ==
    {[null |-> TRUE, value |-> 0, has_threshold |-> TRUE]}
    \cup {[null |-> FALSE, value |-> v, has_threshold |-> TRUE] :
             v \in {90, 100, 500, 510}}
    \cup {[null |-> FALSE, value |-> 250, has_threshold |-> FALSE]}

\* the status the loop gives a field that has a value and a threshold:
\* 1 if (min_val <= value <= max_val) else 0
FieldStatus(value) ==
    IF field_threshold.min_val <= value /\ value <= field_threshold.max_val
    THEN 1 ELSE 0

\* the branch of the loop a field takes
FieldKinds == {"in_range", "out_of_range", "null", "no_threshold"}
FieldKind(f) ==
    IF f.null THEN "null"
    ELSE IF ~f.has_threshold THEN "no_threshold"
    ELSE IF FieldStatus(f.value) = 1 THEN "in_range" ELSE "out_of_range"

\* node_result[key]
FieldMark(f) ==
    CASE FieldKind(f) = "null"         -> 0
      [] FieldKind(f) = "no_threshold" -> 1
      [] OTHER                         -> FieldStatus(f.value)

FieldLists == UNION {[1..n -> FieldSet] : n \in 0..MaxReadings}

\* what an analysis is handed: a list of SensorData for a strategy, or for the
\* Analyzer one node's fields, the number of issues check_quality reports for
\* the reading, and whether the threshold_violations counter exists
\* AnalysisContext, the fields the strategies read: system_load, and
\* weather_conditions as the list of its "drought_severity" entries, none when
\* the key is absent; the severity is on the 0-1 scale analyze documents
NoContext == [system_load |-> 50, weather_conditions |-> <<>>]
Contexts ==
    {NoContext,
     [system_load |-> 100, weather_conditions |-> <<>>],
     [system_load |-> 50, weather_conditions |-> <<0>>],
     [system_load |-> 50, weather_conditions |-> <<100>>]}
StrategyInputs ==
    {[kind |-> "strategy", sensor_data |-> l, fields |-> <<>>, issues |-> 0,
      metrics |-> FALSE, context |-> c] : l \in SensorLists, c \in Contexts}
ServiceInputs ==
    {[kind |-> "service", sensor_data |-> <<>>, fields |-> f, issues |-> i,
      metrics |-> m, context |-> NoContext] :
        f \in FieldLists, i \in 0..MaxIssues, m \in BOOLEAN}
NoInput ==
    [kind |-> "none", sensor_data |-> <<>>, fields |-> <<>>, issues |-> 0,
     metrics |-> FALSE, context |-> NoContext]
\* a result, its lists by their lengths; a list the analysis does not keep is
\* 0, as is the risk score of the Analyzer, which has none
NoAnalysis ==
    [by |-> "none", state |-> "UNKNOWN", quality_score |-> 100,
     risk_score |-> 0, violations |-> 0, critical_violations |-> 0,
     conservation_violations |-> 0, marks |-> <<>>]

\* NormalOperationStrategy.get_thresholds
normal_thresholds ==
    [max_flow |-> 1000, max_pressure |-> 40, min_quality |-> 60]
\* EmergencyResponseStrategy.get_thresholds
emergency_thresholds ==
    [max_flow |-> 800, critical_max_flow |-> 1200,
     max_pressure |-> 30, critical_max_pressure |-> 50,
     min_quality |-> 70, critical_min_quality |-> 40]

\* NormalOperationStrategy.analyze, the loop body: does the reading add a
\* violation
NormalViolates(d) ==
    CASE d.sensor_type = "flow"     -> d.value > normal_thresholds.max_flow
      [] d.sensor_type = "pressure" -> d.value > normal_thresholds.max_pressure
      [] d.sensor_type = "quality"  -> d.value < normal_thresholds.min_quality
      [] OTHER                      -> FALSE

\* EmergencyResponseStrategy.analyze, the loop body: the list the reading goes to
EmergencyClass(d) ==
    LET t == emergency_thresholds IN
    CASE d.sensor_type = "flow" ->
             IF d.value > t.critical_max_flow THEN "critical"
             ELSE IF d.value > t.max_flow THEN "violation" ELSE "none"
      [] d.sensor_type = "pressure" ->
             IF d.value > t.critical_max_pressure THEN "critical"
             ELSE IF d.value > t.max_pressure THEN "violation" ELSE "none"
      [] d.sensor_type = "quality" ->
             IF d.value < t.critical_min_quality THEN "critical"
             ELSE IF d.value < t.min_quality THEN "violation" ELSE "none"
      [] OTHER -> "none"

\* len() of a list the loop has appended to for the entries that satisfy Test
CountIf(list, Test(_)) ==
    Len(SelectSeq(list, Test))

\* quality_score = max(0.0, 1.0 - penalty)
ScoreAfter(penalty) == IF penalty >= 100 THEN 0 ELSE 100 - penalty

\* calculate_risk_score: min(1.0, risk)
RiskUncapped(risk) == risk
RiskOf(risk) == IF risk >= 100 THEN 100 ELSE risk

\* max(0, x)
NonNegative(x) == IF x > 0 THEN x ELSE 0

\* NormalOperationStrategy.analyze: the state, from len(violations)
NormalStateOf(v) ==
    IF v = 0 THEN "NORMAL" ELSE IF v <= 2 THEN "WARNING" ELSE "CRITICAL"

\* NormalOperationStrategy.analyze
NormalOperationAnalyze(sensor_data) ==
    LET v == CountIf(sensor_data, NormalViolates)
    IN  [by |-> "normal_operation", state |-> NormalStateOf(v),
         quality_score |-> ScoreAfter(v * 15),
         risk_score |-> RiskOf(v * 20),
         violations |-> v, critical_violations |-> 0,
         conservation_violations |-> 0, marks |-> <<>>]

\* EmergencyResponseStrategy.analyze: the state, from len(violations) and
\* len(critical_violations)
EmergencyStateByCount(v, c) ==
    IF v + c >= 3 THEN "CRITICAL" ELSE IF v + c > 0 THEN "WARNING" ELSE "NORMAL"
EmergencyStateOf(v, c) ==
    IF c > 0 THEN "CRITICAL" ELSE IF v > 0 THEN "WARNING" ELSE "NORMAL"

\* EmergencyResponseStrategy.analyze
EmergencyResponseAnalyze(sensor_data) ==
    LET v == CountIf(sensor_data, LAMBDA d : EmergencyClass(d) = "violation")
        c == CountIf(sensor_data, LAMBDA d : EmergencyClass(d) = "critical")
    IN  [by |-> "emergency_response", state |-> EmergencyStateOf(v, c),
         quality_score |-> ScoreAfter(c * 40 + v * 25),
         risk_score |-> RiskOf((v + c) * 60),
         violations |-> v, critical_violations |-> c,
         conservation_violations |-> 0, marks |-> <<>>]

\* PeakDemandStrategy.get_thresholds: the bounds times 1000, so that the load
\* factor system_load / 100 stays a whole number
PeakThresholds(context) ==
    LET load == context.system_load
    IN  [max_flow     |-> 1000 * (1000 + 3 * load),
         max_pressure |-> 40 * (1000 - load),
         min_quality  |-> 30 * (2000 + load)]

\* PeakDemandStrategy.analyze, the loop body: the bound a reading is compared
\* with is the one of get_thresholds adjusted by the load factor again; both
\* sides of the comparison are times 1,000,000
PeakViolates(context, d) ==
    LET load == context.system_load
        thresholds == PeakThresholds(context)
    IN  CASE d.sensor_type = "flow" ->
                 d.value * 1000000 > thresholds.max_flow * (1000 + 3 * load)
          [] d.sensor_type = "pressure" ->
                 d.value * 1000000 > thresholds.max_pressure * (1000 - load)
          [] d.sensor_type = "quality" ->
                 d.value * 2000000 < thresholds.min_quality * (2000 + load)
          [] OTHER -> FALSE

\* PeakDemandStrategy.analyze: the state, from len(violations) and the load
PeakStateOf(v, load) ==
    IF v = 0 /\ load < 80 THEN "NORMAL"
    ELSE IF v <= 1 /\ load < 90 THEN "WARNING" ELSE "CRITICAL"

\* PeakDemandStrategy.analyze and calculate_risk_score; (load_factor - 0.8)
\* * 0.2 is (load - 80) / 5 hundredths, (load_factor - 0.8) * 0.3 is
\* 3 * (load - 80) / 10
PeakDemandAnalyze(sensor_data, context) ==
    LET load == context.system_load
        v == CountIf(sensor_data, LAMBDA d : PeakViolates(context, d))
    IN  [by |-> "peak_demand", state |-> PeakStateOf(v, load),
         quality_score |-> ScoreAfter(v * 20 + NonNegative((load - 80) \div 5)),
         risk_score |->
             RiskOf(v * 25 + NonNegative((3 * (load - 80)) \div 10)),
         violations |-> v, critical_violations |-> 0,
         conservation_violations |-> 0, marks |-> <<>>]

\* context.weather_conditions.get("drought_severity", default)
DroughtSeverity(context, default) ==
    IF context.weather_conditions = <<>> THEN default
    ELSE context.weather_conditions[1]

\* DroughtConditionsStrategy.get_thresholds: conservation_factor is
\* 1.0 - drought_severity * 0.4
DroughtThresholds(context) ==
    LET conservation_factor == 1000 - 4 * DroughtSeverity(context, 50)
    IN  [conservation_max_flow |-> (600 * conservation_factor) \div 1000,
         max_flow |-> (800 * conservation_factor) \div 1000,
         min_pressure |-> 20, max_pressure |-> 40,
         enhanced_min_quality |-> 75]

\* DroughtConditionsStrategy.analyze, the loop body: the list the reading
\* goes to
DroughtClass(context, d) ==
    LET t == DroughtThresholds(context) IN
    CASE d.sensor_type = "flow" ->
             IF d.value > t.max_flow THEN "violation"
             ELSE IF d.value > t.conservation_max_flow THEN "conservation"
             ELSE "none"
      [] d.sensor_type = "pressure" ->
             IF d.value < t.min_pressure \/ d.value > t.max_pressure
             THEN "violation" ELSE "none"
      [] d.sensor_type = "quality" ->
             IF d.value < t.enhanced_min_quality THEN "violation" ELSE "none"
      [] OTHER -> "none"

\* DroughtConditionsStrategy.analyze: the state
DroughtStateOf(v, c) ==
    IF v = 0 /\ c <= 1 THEN "NORMAL"
    ELSE IF v <= 1 /\ c <= 3 THEN "WARNING" ELSE "CRITICAL"

\* DroughtConditionsStrategy.analyze and calculate_risk_score: the penalty
\* reads the severity with the default 0.5, the risk with the default 0.0
DroughtConditionsAnalyze(sensor_data, context) ==
    LET v == CountIf(sensor_data, LAMBDA d : DroughtClass(context, d) = "violation")
        c == CountIf(sensor_data,
                     LAMBDA d : DroughtClass(context, d) = "conservation")
    IN  [by |-> "drought_conditions", state |-> DroughtStateOf(v, c),
         quality_score |->
             ScoreAfter(v * 20 + c * 10 + DroughtSeverity(context, 50) \div 10),
         risk_score |->
             RiskOf(v * 25 + (3 * DroughtSeverity(context, 0)) \div 10),
         violations |-> v, critical_violations |-> 0,
         conservation_violations |-> c, marks |-> <<>>]

\* Analyzer._analyze_no_timing, one node: quality_score starts at the checker's
\* 1.0 - 0.2 * len(issues) and loses 0.2 per null field; bad_count counts the
\* null fields, and the fields outside their threshold only when the
\* threshold_violations counter exists
ServiceAnalyze(in) ==
    LET nulls    == CountIf(in.fields, LAMBDA f : FieldKind(f) = "null")
        breaches == CountIf(in.fields, LAMBDA f : FieldKind(f) = "out_of_range")
        bad_count == nulls + (IF in.metrics THEN breaches ELSE 0)
        quality_score == 100 - 20 * in.issues - 20 * nulls
    IN  [by |-> "analyzer", quality_score |-> quality_score,
         risk_score |-> 0, violations |-> bad_count, critical_violations |-> 0,
         conservation_violations |-> 0,
         marks |-> [i \in DOMAIN in.fields |-> FieldMark(in.fields[i])],
         state |-> IF quality_score > 80 THEN "normal"
                   ELSE IF bad_count = 1 \/ quality_score > 50 THEN "alert"
                   ELSE "emergency"]

\* strategy.analyze(sensor_data, context) with the normal-operation strategy
AnalyzeNormalOperation ==
    /\ analysis_input.kind = "strategy"
    /\ analysis_result' = NormalOperationAnalyze(analysis_input.sensor_data)
    /\ UNCHANGED analysis_input
    /\ UNCHANGED notAnalysisVars

\* strategy.analyze(sensor_data, context) with the emergency-response strategy
AnalyzeEmergencyResponse ==
    /\ analysis_input.kind = "strategy"
    /\ analysis_result' = EmergencyResponseAnalyze(analysis_input.sensor_data)
    /\ UNCHANGED analysis_input
    /\ UNCHANGED notAnalysisVars

\* strategy.analyze(sensor_data, context) with the peak-demand strategy
AnalyzePeakDemand ==
    /\ analysis_input.kind = "strategy"
    /\ analysis_result' = PeakDemandAnalyze(analysis_input.sensor_data,
                                            analysis_input.context)
    /\ UNCHANGED analysis_input
    /\ UNCHANGED notAnalysisVars

\* strategy.analyze(sensor_data, context) with the drought strategy
AnalyzeDroughtConditions ==
    /\ analysis_input.kind = "strategy"
    /\ analysis_result' = DroughtConditionsAnalyze(analysis_input.sensor_data,
                                                   analysis_input.context)
    /\ UNCHANGED analysis_input
    /\ UNCHANGED notAnalysisVars

\* Analyzer.analyze on the reading of one node
AnalyzeNode ==
    /\ analysis_input.kind = "service"
    /\ analysis_result' = ServiceAnalyze(analysis_input)
    /\ UNCHANGED analysis_input
    /\ UNCHANGED notAnalysisVars

NextAnalysis ==
    \/ AnalyzeNormalOperation
    \/ AnalyzeEmergencyResponse
    \/ AnalyzePeakDemand
    \/ AnalyzeDroughtConditions
    \/ AnalyzeNode

(***************************************************************************)
(* ScenarioAnalyzer: the registry of strategies, the selection of a        *)
(* scenario, the analysis with the selected strategy and the rule that     *)
(* recommends a scenario                                                   *)
(***************************************************************************)
\* ScenarioType
ScenarioTypes ==
    {"normal_operation", "peak_demand", "maintenance_mode",
     "emergency_response", "drought_conditions", "flood_response",
     "night_mode", "industrial_peak"}

\* the strategy classes, by the `strategy_used` of their results
StrategyNames ==
    {"normal_operation", "peak_demand", "emergency_response",
     "drought_conditions"}

\* ScenarioAnalyzer.__init__: self.strategies
InitialStrategies ==
    [s \in {"normal_operation", "peak_demand", "emergency_response",
            "drought_conditions"} |-> s]

\* current_context = None
NoScenarioContext ==
    [scenario |-> "none", system_load |-> 50, weather_conditions |-> <<>>]

\* AnalysisContextFactory.create_context(scenario, ...): the context made for
\* the scenario a caller goes on to select
create_context(scenario, c) ==
    [scenario |-> scenario, system_load |-> c.system_load,
     weather_conditions |-> c.weather_conditions]

\* the sensor lists handed to ScenarioAnalyzer.analyze
ScenarioReadings == {l \in SensorLists : Len(l) <= 1}

\* the current_conditions handed to get_scenario_recommendations, and the
\* times of day with "night" in time_of_day.lower()
TimesOfDay == {"12:00", "night", "Midnight"}
NightTimes == {"night", "Midnight"}
Conditions ==
    [emergency_active : BOOLEAN, drought_severity : {0, 30, 50},
     system_load : {50, 80, 100}, time_of_day : TimesOfDay]

NoScenarioOp ==
    [op |-> "none", scenario |-> "none", raised |-> FALSE,
     result |-> NoAnalysis, scenario_type |-> "none"]

\* current_strategy.analyze(sensor_data, current_context)
StrategyAnalyze(strategy, sensor_data, context) ==
    CASE strategy = "normal_operation"   -> NormalOperationAnalyze(sensor_data)
      [] strategy = "peak_demand"        -> PeakDemandAnalyze(sensor_data, context)
      [] strategy = "emergency_response" -> EmergencyResponseAnalyze(sensor_data)
      [] strategy = "drought_conditions" ->
             DroughtConditionsAnalyze(sensor_data, context)

\* set_scenario(scenario, context)
set_scenario_with_default(scenario, context) ==
    /\ scenario_calls < MaxScenarioCalls
    /\ scenario_calls' = scenario_calls + 1
    /\ refused_scenarios' =
           IF scenario \in DOMAIN strategies
           THEN refused_scenarios \ {scenario}
           ELSE refused_scenarios \cup {scenario}
    /\ current_strategy' =
           IF scenario \in DOMAIN strategies THEN strategies[scenario]
           ELSE "normal_operation"
    /\ current_context' = context
    /\ last_scenario_op' = [NoScenarioOp EXCEPT !.op = "set_scenario",
                                !.scenario = scenario]
    /\ UNCHANGED strategies
    /\ UNCHANGED notScenarioVars
set_scenario(scenario, context) ==
    /\ scenario_calls < MaxScenarioCalls
    /\ scenario_calls' = scenario_calls + 1
    /\ refused_scenarios' =
           IF scenario \in DOMAIN strategies
           THEN refused_scenarios \ {scenario}
           ELSE refused_scenarios \cup {scenario}
    /\ IF scenario \notin DOMAIN strategies
       THEN /\ last_scenario_op' = [NoScenarioOp EXCEPT !.op = "set_scenario",
                                        !.scenario = scenario, !.raised = TRUE]
            /\ UNCHANGED <<current_strategy, current_context>>
       ELSE /\ current_strategy' = strategies[scenario]
            /\ current_context' = context
            /\ last_scenario_op' = [NoScenarioOp EXCEPT !.op = "set_scenario",
                                        !.scenario = scenario]
    /\ UNCHANGED strategies
    /\ UNCHANGED notScenarioVars

\* ScenarioAnalyzer.analyze(sensor_data)
ScenarioAnalyze(sensor_data) ==
    /\ scenario_calls < MaxScenarioCalls
    /\ scenario_calls' = scenario_calls + 1
    /\ IF current_strategy = "none" \/ current_context = NoScenarioContext
       THEN last_scenario_op' = [NoScenarioOp EXCEPT !.op = "analyze",
                                    !.raised = TRUE]
       ELSE last_scenario_op' =
                [NoScenarioOp EXCEPT !.op = "analyze",
                    !.result = StrategyAnalyze(current_strategy, sensor_data,
                                               current_context),
                    !.scenario_type = current_context.scenario]
    /\ UNCHANGED <<strategies, current_strategy, current_context,
                   refused_scenarios>>
    /\ UNCHANGED notScenarioVars

\* add_strategy(scenario, strategy)
add_strategy(scenario, strategy) ==
    /\ scenario_calls < MaxScenarioCalls
    /\ scenario_calls' = scenario_calls + 1
    /\ strategies' = [s \in DOMAIN strategies \cup {scenario} |->
                         IF s = scenario THEN strategy ELSE strategies[s]]
    /\ last_scenario_op' = [NoScenarioOp EXCEPT !.op = "add_strategy",
                                !.scenario = scenario]
    /\ UNCHANGED <<current_strategy, current_context, refused_scenarios>>
    /\ UNCHANGED notScenarioVars

\* get_scenario_recommendations: the scenario returned
Recommendation(current_conditions) ==
    IF current_conditions.emergency_active THEN "emergency_response"
    ELSE IF current_conditions.drought_severity > 30 THEN "drought_conditions"
    ELSE IF current_conditions.system_load > 80 THEN "peak_demand"
    ELSE IF current_conditions.time_of_day \in NightTimes THEN "night_mode"
    ELSE "normal_operation"

\* get_scenario_recommendations(current_conditions)
get_scenario_recommendations(current_conditions) ==
    /\ scenario_calls < MaxScenarioCalls
    /\ scenario_calls' = scenario_calls + 1
    /\ last_scenario_op' = [NoScenarioOp EXCEPT !.op = "recommend",
                                !.scenario = Recommendation(current_conditions)]
    /\ UNCHANGED <<strategies, current_strategy, current_context,
                   refused_scenarios>>
    /\ UNCHANGED notScenarioVars

NextScenario ==
    \/ \E s \in ScenarioTypes, c \in Contexts :
           set_scenario(s, create_context(s, c))
    \/ \E l \in ScenarioReadings : ScenarioAnalyze(l)
    \/ \E s \in {"night_mode", "peak_demand"},
          st \in {"normal_operation", "peak_demand"} : add_strategy(s, st)
    \/ \E c \in Conditions : get_scenario_recommendations(c)

(***************************************************************************)
(* The gradual adjustment of SystemParameterAdjustmentCommand, one write   *)
(* at a time.  Values are in hundredths of the parameter's unit here, so   *)
(* that targets between two multiples of the adjustment rate exist; an     *)
(* intermediate value, current_value + step_size * (i + 1), is kept times  *)
(* `steps`, which keeps it a whole number.                                 *)
(***************************************************************************)
Hundredths(tenths) == tenths * 10

\* what _get_current_value may return: the simulated 2.5, and other readings
\* of the system it stands for
CurrentValues == {Hundredths(GetCurrentValue), 262, 300}
\* new_value of the command, within the safety limits of its parameter
NewValues == {200, 225, 245, 250, 255, 265, 275, 280, 300}

\* steps = max(1, int(abs(target - current_value) / self.adjustment_rate))
StepsBetween(current_value, target) ==
    Max(1, Abs(target - current_value) \div Hundredths(adjustment_rate))

\* execute, up to the loop: previous_value is read and kept, steps computed
AdjustExecuteBegin(current_value) ==
    /\ adj_pc = "pending"
    /\ adj_pc' = "executing"
    /\ adj_previous_value' = Some(current_value)
    /\ adj_current_value' = current_value
    /\ adj_target' = adj_new_value
    /\ adj_steps' = StepsBetween(current_value, adj_new_value)
    /\ adj_i' = 0
    /\ adj_intermediate' =
           current_value * StepsBetween(current_value, adj_new_value)
    /\ UNCHANGED adj_new_value
    /\ UNCHANGED notAdjustVars

\* one pass of the loop, of execute or of undo:
\* _set_parameter_value(current_value + step_size * (i + 1))
AdjustStep ==
    /\ adj_pc \in {"executing", "undoing"}
    /\ adj_i < adj_steps
    /\ adj_i' = adj_i + 1
    /\ adj_intermediate' = adj_current_value * adj_steps
                               + (adj_target - adj_current_value) * (adj_i + 1)
    /\ UNCHANGED <<adj_pc, adj_new_value, adj_previous_value, adj_current_value,
                   adj_target, adj_steps>>
    /\ UNCHANGED notAdjustVars

\* execute, after the loop: the status becomes COMPLETED
AdjustExecuteEnd ==
    /\ adj_pc = "executing"
    /\ adj_i = adj_steps
    /\ adj_pc' = "completed"
    /\ UNCHANGED <<adj_new_value, adj_previous_value, adj_current_value,
                   adj_target, adj_steps, adj_i, adj_intermediate>>
    /\ UNCHANGED notAdjustVars

\* undo, up to the loop: the value is read again and the way back to
\* previous_value divided into steps
AdjustUndoBegin(current_value) ==
    /\ adj_pc = "completed"
    /\ adj_previous_value # None
    /\ adj_pc' = "undoing"
    /\ adj_current_value' = current_value
    /\ adj_target' = adj_previous_value[1]
    /\ adj_steps' = StepsBetween(current_value, adj_previous_value[1])
    /\ adj_i' = 0
    /\ adj_intermediate' =
           current_value * StepsBetween(current_value, adj_previous_value[1])
    /\ UNCHANGED <<adj_new_value, adj_previous_value>>
    /\ UNCHANGED notAdjustVars

\* undo, after the loop: the status becomes UNDONE
AdjustUndoEnd ==
    /\ adj_pc = "undoing"
    /\ adj_i = adj_steps
    /\ adj_pc' = "undone"
    /\ UNCHANGED <<adj_new_value, adj_previous_value, adj_current_value,
                   adj_target, adj_steps, adj_i, adj_intermediate>>
    /\ UNCHANGED notAdjustVars

NextAdjust ==
    \/ \E v \in CurrentValues : AdjustExecuteBegin(v)
    \/ AdjustStep
    \/ AdjustExecuteEnd
    \/ \E v \in CurrentValues \cup NewValues : AdjustUndoBegin(v)
    \/ AdjustUndoEnd

(***************************************************************************)
(* AsyncMAPEK.run_loop: `while True`, one iteration per cycle.  The four   *)
(* service calls and the sleep sit in one try block; a value returned by a *)
(* service is kept as the service and the cycle that produced it, so that  *)
(* what a later call receives can be told from what an earlier cycle left  *)
(* in the local names, which stay bound from one iteration to the next.    *)
(***************************************************************************)
\* a local name of run_loop no statement has assigned yet
Unbound == [by |-> "unbound"]
\* read_sensors takes no argument
NoArgument == [by |-> "no_argument"]

\* the services in the order of the statements of the try block
LoopServices == <<"monitor", "analyze", "plan", "execute">>

\* a value returned by `service` in iteration `cycle`
Output(service, cycle) == [by |-> service, cycle |-> cycle]

ServiceCall(service, argument, outcome) ==
    [service |-> service, argument |-> argument, outcome |-> outcome]

\* the argument the statement that calls `service` passes
LoopArgumentFromSensorData(service) ==
    CASE service = "monitor" -> NoArgument
      [] service = "analyze" -> loop_sensor_data
      [] service = "plan"    -> loop_sensor_data
      [] service = "execute" -> loop_plans

LoopArgument(service) ==
    CASE service = "monitor" -> NoArgument
      [] service = "analyze" -> loop_sensor_data
      [] service = "plan"    -> loop_analysis
      [] service = "execute" -> loop_plans

\* where run_loop stands after the statement that calls `service` returned
AfterService(service) ==
    CASE service = "monitor" -> "analyze"
      [] service = "analyze" -> "plan"
      [] service = "plan"    -> "execute"
      [] service = "execute" -> "sleep"

\* a service call raises and the statements after it run all the same
LoopRaisesAndGoesOn(service) ==
    /\ loop_pc = service
    /\ loop_calls' = Append(loop_calls,
                            ServiceCall(service, LoopArgument(service), "raised"))
    /\ loop_pc' = AfterService(service)
    /\ loop_status' = IF service = "execute" THEN "completed" ELSE loop_status
    /\ UNCHANGED <<loop_cycle, loop_sensor_data, loop_analysis, loop_plans>>
    /\ UNCHANGED notLoopVars

\* a service call raises an Exception: the rest of the try block is left,
\* the error is logged and run_loop awaits asyncio.sleep(30)
LoopRaises(service) ==
    /\ loop_pc = service
    /\ loop_calls' = Append(loop_calls,
                            ServiceCall(service, LoopArgument(service), "raised"))
    /\ loop_pc' = "error_sleep"
    /\ loop_status' = "failed"
    /\ UNCHANGED <<loop_cycle, loop_sensor_data, loop_analysis, loop_plans>>
    /\ UNCHANGED notLoopVars

\* sensor_data = self.monitor.read_sensors()
LoopReadSensors ==
    /\ loop_pc = "monitor"
    /\ loop_sensor_data' = Output("monitor", loop_cycle)
    /\ loop_calls' = Append(loop_calls,
                            ServiceCall("monitor", LoopArgument("monitor"), "returned"))
    /\ loop_pc' = AfterService("monitor")
    /\ UNCHANGED <<loop_cycle, loop_analysis, loop_plans, loop_status>>
    /\ UNCHANGED notLoopVars

\* analysis = self.analyzer.analyze(sensor_data)
LoopAnalyze ==
    /\ loop_pc = "analyze"
    /\ loop_analysis' = Output("analyze", loop_cycle)
    /\ loop_calls' = Append(loop_calls,
                            ServiceCall("analyze", LoopArgument("analyze"), "returned"))
    /\ loop_pc' = AfterService("analyze")
    /\ UNCHANGED <<loop_cycle, loop_sensor_data, loop_plans, loop_status>>
    /\ UNCHANGED notLoopVars

\* plans = self.planner.select_plans(analysis)
LoopSelectPlans ==
    /\ loop_pc = "plan"
    /\ loop_plans' = Output("plan", loop_cycle)
    /\ loop_calls' = Append(loop_calls,
                            ServiceCall("plan", LoopArgument("plan"), "returned"))
    /\ loop_pc' = AfterService("plan")
    /\ UNCHANGED <<loop_cycle, loop_sensor_data, loop_analysis, loop_status>>
    /\ UNCHANGED notLoopVars

\* await self.executor.execute(plans) returns; run_loop goes on to
\* await asyncio.sleep(config.loop_interval)
LoopExecute ==
    /\ loop_pc = "execute"
    /\ loop_calls' = Append(loop_calls,
                            ServiceCall("execute", LoopArgument("execute"), "returned"))
    /\ loop_pc' = AfterService("execute")
    /\ loop_status' = "completed"
    /\ UNCHANGED <<loop_cycle, loop_sensor_data, loop_analysis, loop_plans>>
    /\ UNCHANGED notLoopVars

\* either sleep is over: `while True` starts the next iteration
LoopSleepReturns ==
    /\ loop_pc \in {"sleep", "error_sleep"}
    /\ loop_pc' = "monitor"
    /\ loop_cycle' = (loop_cycle + 1) % MaxCycles
    /\ loop_calls' = <<>>
    /\ loop_status' = "running"
    /\ UNCHANGED <<loop_sensor_data, loop_analysis, loop_plans>>
    /\ UNCHANGED notLoopVars

NextLoop ==
    \/ LoopReadSensors
    \/ LoopAnalyze
    \/ LoopSelectPlans
    \/ LoopExecute
    \/ \E service \in Range(LoopServices) : LoopRaises(service)
    \/ LoopSleepReturns

(***************************************************************************)
(* StandardWaterUtilityPipeline: the bodies of the stages and the fields   *)
(* of the context they read and write, under the pipeline's own policy     *)
(* ("continue", the default it is built with).  A value of the context is  *)
(* kept as who set it, the execute_pipeline call it belongs to, and what   *)
(* the stages look at: whether it is empty and, for a plan, its action.    *)
(***************************************************************************)
ContextValue(by, run, v) == [by |-> by, run |-> run, v |-> v]

\* the context fields while no execute_pipeline call has been made
NoValue == ContextValue("no_value", 0, "empty")

\* sensor_data=[], analysis_result={}, execution_plan={}, execution_result={}
EmptyValue(run) == ContextValue("execute_pipeline", run, "empty")

\* a test that lets an empty list or dict pass
TruthyWhenEmpty(value) == TRUE

\* `if not context.sensor_data`, `if not context.analysis_result`,
\* `if not context.execution_plan`: an empty list or dict is false
Truthy(value) == value.v # "empty"

\* what a stage body does besides its service call: the service raises, or
\* it returns `v` and the metadata update after the assignment then passes
\* or raises (a result that has no .get, a reading that is no dict)
StageOutcomes(returned) ==
    {[service |-> "raises", metadata |-> "ok"]}
        \cup {[service |-> v, metadata |-> m] : v \in returned, m \in {"ok", "raises"}}

BodyFails(outcome) == outcome.service = "raises" \/ outcome.metadata = "raises"

CallOutcome(outcome) == IF outcome.service = "raises" THEN "raised" ELSE "returned"

\* except Exception in _execute_stage under "continue": a failure metric,
\* a warning, and execute_pipeline goes on with the next stage
FailedAfter(stage, outcome) ==
    IF BodyFails(outcome) THEN std_failed \cup {stage} ELSE std_failed

\* execute_pipeline up to the first stage: a context of its own
StdExecutePipelineBegin ==
    /\ std_pc \in {"idle", "returned"}
    /\ std_run < MaxCycles
    /\ std_run' = std_run + 1
    /\ std_sensor_data' = EmptyValue(std_run + 1)
    /\ std_analysis_result' = EmptyValue(std_run + 1)
    /\ std_execution_plan' = EmptyValue(std_run + 1)
    /\ std_execution_result' = EmptyValue(std_run + 1)
    /\ std_failed' = {}
    /\ std_calls' = <<>>
    /\ std_pc' = "monitor"
    /\ UNCHANGED notStdVars

\* monitor_phase: no reading in an empty list can make the metadata raise
StdMonitorPhase ==
    /\ std_pc = "monitor"
    /\ \E outcome \in StageOutcomes({"empty", "readings"}) :
          /\ outcome.service = "empty" => outcome.metadata = "ok"
          /\ std_calls' = Append(std_calls,
                 ServiceCall("sensor_service", NoArgument, CallOutcome(outcome)))
          /\ std_sensor_data' =
                 IF outcome.service = "raises" THEN std_sensor_data
                 ELSE ContextValue("sensor_service", std_run, outcome.service)
          /\ std_failed' = FailedAfter("monitor", outcome)
    /\ std_pc' = "analyze"
    /\ UNCHANGED <<std_run, std_analysis_result, std_execution_plan,
                   std_execution_result>>
    /\ UNCHANGED notStdVars

\* analyze_phase: the analyzer answers with a result, or with an empty one
StdAnalyzePhase ==
    /\ std_pc = "analyze"
    /\ IF ~Truthy(std_sensor_data)
       THEN /\ std_analysis_result' = ContextValue("analyze_phase", std_run, "UNKNOWN")
            /\ UNCHANGED <<std_calls, std_failed>>
       ELSE \E outcome \in StageOutcomes({"empty", "result"}) :
               /\ std_calls' = Append(std_calls,
                      ServiceCall("analyzer_service", std_sensor_data,
                                  CallOutcome(outcome)))
               /\ std_analysis_result' =
                      IF outcome.service = "raises" THEN std_analysis_result
                      ELSE ContextValue("analyzer_service", std_run, outcome.service)
               /\ std_failed' = FailedAfter("analyze", outcome)
    /\ std_pc' = "plan"
    /\ UNCHANGED <<std_run, std_sensor_data, std_execution_plan,
                   std_execution_result>>
    /\ UNCHANGED notStdVars

\* plan_phase: the planner answers with an empty plan, with a plan whose
\* action is no_action, or with one that asks for a command
StdPlanPhase ==
    /\ std_pc = "plan"
    /\ IF ~Truthy(std_analysis_result)
       THEN /\ std_execution_plan' = ContextValue("plan_phase", std_run, "no_action")
            /\ UNCHANGED <<std_calls, std_failed>>
       ELSE \E outcome \in StageOutcomes({"empty", "no_action", "adjust"}) :
               /\ std_calls' = Append(std_calls,
                      ServiceCall("planner_service", std_analysis_result,
                                  CallOutcome(outcome)))
               /\ std_execution_plan' =
                      IF outcome.service = "raises" THEN std_execution_plan
                      ELSE ContextValue("planner_service", std_run, outcome.service)
               /\ std_failed' = FailedAfter("plan", outcome)
    /\ std_pc' = "execute"
    /\ UNCHANGED <<std_run, std_sensor_data, std_analysis_result,
                   std_execution_result>>
    /\ UNCHANGED notStdVars

\* execute_phase
StdExecutePhase ==
    /\ std_pc = "execute"
    /\ IF ~Truthy(std_execution_plan) \/ std_execution_plan.v = "no_action"
       THEN /\ std_execution_result' = ContextValue("execute_phase", std_run, "skipped")
            /\ UNCHANGED <<std_calls, std_failed>>
       ELSE \E outcome \in StageOutcomes({"result"}) :
               /\ std_calls' = Append(std_calls,
                      ServiceCall("executor_service", std_execution_plan,
                                  CallOutcome(outcome)))
               /\ std_execution_result' =
                      IF outcome.service = "raises" THEN std_execution_result
                      ELSE ContextValue("executor_service", std_run, outcome.service)
               /\ std_failed' = FailedAfter("execute", outcome)
    /\ std_pc' = "knowledge_update"
    /\ UNCHANGED <<std_run, std_sensor_data, std_analysis_result,
                   std_execution_plan>>
    /\ UNCHANGED notStdVars

\* update_knowledge_phase: the context is handed to the knowledge service
StdUpdateKnowledgePhase ==
    /\ std_pc = "knowledge_update"
    /\ \E outcome \in StageOutcomes({"stored"}) :
          /\ std_calls' = Append(std_calls,
                 ServiceCall("knowledge_service",
                             [sensor_readings  |-> std_sensor_data,
                              analysis_result  |-> std_analysis_result,
                              execution_plan   |-> std_execution_plan,
                              execution_result |-> std_execution_result],
                             CallOutcome(outcome)))
          /\ std_failed' = FailedAfter("knowledge_update", outcome)
    /\ std_pc' = "post"
    /\ UNCHANGED <<std_run, std_sensor_data, std_analysis_result,
                   std_execution_plan, std_execution_result>>
    /\ UNCHANGED notStdVars

\* execute_pipeline after the last stage: the context is returned
StdExecutePipelineEnd ==
    /\ std_pc = "post"
    /\ std_pc' = "returned"
    /\ UNCHANGED <<std_run, std_sensor_data, std_analysis_result,
                   std_execution_plan, std_execution_result, std_failed, std_calls>>
    /\ UNCHANGED notStdVars

NextStandard ==
    \/ StdExecutePipelineBegin
    \/ StdMonitorPhase
    \/ StdAnalyzePhase
    \/ StdPlanPhase
    \/ StdExecutePhase
    \/ StdUpdateKnowledgePhase
    \/ StdExecutePipelineEnd

\* the control loop and the standard pipeline, each making its cycles
NextCycle ==
    \/ NextLoop
    \/ NextStandard

(***************************************************************************)
(* Specifications: one per subsystem, the others at rest                   *)
(***************************************************************************)
\* MapeKPipelineTemplate.__init__ with any configuration, and the context
\* execute_pipeline builds; the invoker and the commands as constructed
PipelineInit ==
    /\ error_handling_strategy \in ErrorStrategies
    /\ hooks_enabled \in BOOLEAN
    /\ performance_monitoring \in BOOLEAN
    /\ pc = "pre_hook"
    /\ call_idx = 1
    /\ current_stage = "monitor"
    /\ attempt = 0
    /\ backoff_delays = <<>>
    /\ stage_metrics = <<>>
    /\ last_stage_end = [stage |-> "none", success |-> TRUE]
    /\ stage_starts = <<>>
    /\ hook_calls = <<>>
    /\ running = {}
    /\ commands_sent = 0
    /\ commands_completed = 0
    /\ failed_stage = "none"
    /\ raise_cause = "none"
    /\ status = [c \in Commands |-> "PENDING"]
    /\ previous_value = [c \in SpaCommands |-> None]
    /\ executed_commands = [c \in CompositeCommands |-> <<>>]
    /\ parameter_value = [t \in Targets |-> None]
    /\ last_writer = [t \in Targets |-> "none"]
    /\ fault_count = 0
    /\ command_history = <<>>
    /\ undo_stack = <<>>
    /\ redo_stack = <<>>
    /\ active_commands = {}
    /\ invoker_pc = "idle"
    /\ current_command = "none"
    /\ op_count = 0
    /\ last_op = NoOp
    /\ undo_snapshot = NoSnapshot
    /\ observers = [t \in EventTypes |-> {}]
    /\ event_history = <<>>
    /\ metrics = [events_published |-> 0, events_filtered |-> 0,
                  observer_notifications |-> 0, notification_errors |-> 0]
    /\ pub_pc = [p \in Publishers |-> "idle"]
    /\ tasks = [p \in Publishers |-> [o \in Observers |-> "none"]]
    /\ pub_event = [p \in Publishers |-> NoEvent]
    /\ publish_count = 0
    /\ last_return = NoReturn
    /\ last_publish = NoPublish
    /\ breaker = NewBreaker
    /\ now = 0
    /\ exec_pc = "idle"
    /\ exec_plans = <<>>
    /\ exec_tasks = <<>>
    /\ endpoint = [n \in NodeIds |-> NoEndpointFailure]
    /\ calls_made = 0
    /\ exec_result = NoExecResult
    /\ component_ids = <<"pump">>
    /\ component_states = [c \in Components |-> None]
    /\ shutdown_status = "PENDING"
    /\ component_active = [c \in Components |-> TRUE]
    /\ sd_pc = "idle"
    /\ sd_idx = 1
    /\ sd_calls = 0
    /\ sd_log = <<>>
    /\ sd_result = NoShutdownResult
    /\ adapters = <<>>
    /\ system_priorities = [s \in Systems |-> 0]
    /\ connected = [s \in Systems |-> FALSE]
    /\ manager_calls = 0
    /\ last_read = NoRead
    /\ last_command = NoCommand
    /\ analysis_input = NoInput
    /\ analysis_result = NoAnalysis
    /\ strategies = InitialStrategies
    /\ current_strategy = "none"
    /\ current_context = NoScenarioContext
    /\ scenario_calls = 0
    /\ refused_scenarios = {}
    /\ last_scenario_op = NoScenarioOp
    /\ adj_pc = "pending"
    /\ adj_new_value = 250
    /\ adj_previous_value = None
    /\ adj_current_value = 250
    /\ adj_target = 250
    /\ adj_steps = 1
    /\ adj_i = 0
    /\ adj_intermediate = 250
    /\ loop_pc = "monitor"
    /\ loop_cycle = 0
    /\ loop_sensor_data = Unbound
    /\ loop_analysis = Unbound
    /\ loop_plans = Unbound
    /\ loop_calls = <<>>
    /\ loop_status = "running"
    /\ std_pc = "idle"
    /\ std_run = 0
    /\ std_sensor_data = NoValue
    /\ std_analysis_result = NoValue
    /\ std_execution_plan = NoValue
    /\ std_execution_result = NoValue
    /\ std_failed = {}
    /\ std_calls = <<>>

PipelineSpec == PipelineInit /\ [][NextPipeline]_vars

\* CommandInvoker.__init__ and Command.__init__: the invoker and the commands
\* as constructed, with no pipeline cycle in progress
CommandInit ==
    /\ status = [c \in Commands |-> "PENDING"]
    /\ previous_value = [c \in SpaCommands |-> None]
    /\ executed_commands = [c \in CompositeCommands |-> <<>>]
    /\ parameter_value = [t \in Targets |-> None]
    /\ last_writer = [t \in Targets |-> "none"]
    /\ fault_count = 0
    /\ command_history = <<>>
    /\ undo_stack = <<>>
    /\ redo_stack = <<>>
    /\ active_commands = {}
    /\ invoker_pc = "idle"
    /\ current_command = "none"
    /\ op_count = 0
    /\ last_op = NoOp
    /\ undo_snapshot = NoSnapshot
    /\ error_handling_strategy = "continue"
    /\ hooks_enabled = TRUE
    /\ performance_monitoring = TRUE
    /\ pc = "returned"
    /\ call_idx = 1
    /\ current_stage = "monitor"
    /\ attempt = 0
    /\ backoff_delays = <<>>
    /\ stage_metrics = <<>>
    /\ last_stage_end = [stage |-> "none", success |-> TRUE]
    /\ stage_starts = <<>>
    /\ hook_calls = <<>>
    /\ running = {}
    /\ commands_sent = 0
    /\ commands_completed = 0
    /\ failed_stage = "none"
    /\ raise_cause = "none"
    /\ observers = [t \in EventTypes |-> {}]
    /\ event_history = <<>>
    /\ metrics = [events_published |-> 0, events_filtered |-> 0,
                  observer_notifications |-> 0, notification_errors |-> 0]
    /\ pub_pc = [p \in Publishers |-> "idle"]
    /\ tasks = [p \in Publishers |-> [o \in Observers |-> "none"]]
    /\ pub_event = [p \in Publishers |-> NoEvent]
    /\ publish_count = 0
    /\ last_return = NoReturn
    /\ last_publish = NoPublish
    /\ breaker = NewBreaker
    /\ now = 0
    /\ exec_pc = "idle"
    /\ exec_plans = <<>>
    /\ exec_tasks = <<>>
    /\ endpoint = [n \in NodeIds |-> NoEndpointFailure]
    /\ calls_made = 0
    /\ exec_result = NoExecResult
    /\ component_ids = <<"pump">>
    /\ component_states = [c \in Components |-> None]
    /\ shutdown_status = "PENDING"
    /\ component_active = [c \in Components |-> TRUE]
    /\ sd_pc = "idle"
    /\ sd_idx = 1
    /\ sd_calls = 0
    /\ sd_log = <<>>
    /\ sd_result = NoShutdownResult
    /\ adapters = <<>>
    /\ system_priorities = [s \in Systems |-> 0]
    /\ connected = [s \in Systems |-> FALSE]
    /\ manager_calls = 0
    /\ last_read = NoRead
    /\ last_command = NoCommand
    /\ analysis_input = NoInput
    /\ analysis_result = NoAnalysis
    /\ strategies = InitialStrategies
    /\ current_strategy = "none"
    /\ current_context = NoScenarioContext
    /\ scenario_calls = 0
    /\ refused_scenarios = {}
    /\ last_scenario_op = NoScenarioOp
    /\ adj_pc = "pending"
    /\ adj_new_value = 250
    /\ adj_previous_value = None
    /\ adj_current_value = 250
    /\ adj_target = 250
    /\ adj_steps = 1
    /\ adj_i = 0
    /\ adj_intermediate = 250
    /\ loop_pc = "monitor"
    /\ loop_cycle = 0
    /\ loop_sensor_data = Unbound
    /\ loop_analysis = Unbound
    /\ loop_plans = Unbound
    /\ loop_calls = <<>>
    /\ loop_status = "running"
    /\ std_pc = "idle"
    /\ std_run = 0
    /\ std_sensor_data = NoValue
    /\ std_analysis_result = NoValue
    /\ std_execution_plan = NoValue
    /\ std_execution_result = NoValue
    /\ std_failed = {}
    /\ std_calls = <<>>

CommandSpec == CommandInit /\ [][NextCommands]_vars

\* EventSubject.__init__ and DigitalTwinEventBus.__init__: the bus as
\* constructed, with no pipeline cycle and no invoker call in progress
BusInit ==
    /\ observers = [t \in EventTypes |-> {}]
    /\ event_history = <<>>
    /\ metrics = [events_published |-> 0, events_filtered |-> 0,
                  observer_notifications |-> 0, notification_errors |-> 0]
    /\ pub_pc = [p \in Publishers |-> "idle"]
    /\ tasks = [p \in Publishers |-> [o \in Observers |-> "none"]]
    /\ pub_event = [p \in Publishers |-> NoEvent]
    /\ publish_count = 0
    /\ last_return = NoReturn
    /\ last_publish = NoPublish
    /\ status = [c \in Commands |-> "PENDING"]
    /\ previous_value = [c \in SpaCommands |-> None]
    /\ executed_commands = [c \in CompositeCommands |-> <<>>]
    /\ parameter_value = [t \in Targets |-> None]
    /\ last_writer = [t \in Targets |-> "none"]
    /\ fault_count = 0
    /\ command_history = <<>>
    /\ undo_stack = <<>>
    /\ redo_stack = <<>>
    /\ active_commands = {}
    /\ invoker_pc = "idle"
    /\ current_command = "none"
    /\ op_count = 0
    /\ last_op = NoOp
    /\ undo_snapshot = NoSnapshot
    /\ error_handling_strategy = "continue"
    /\ hooks_enabled = TRUE
    /\ performance_monitoring = TRUE
    /\ pc = "returned"
    /\ call_idx = 1
    /\ current_stage = "monitor"
    /\ attempt = 0
    /\ backoff_delays = <<>>
    /\ stage_metrics = <<>>
    /\ last_stage_end = [stage |-> "none", success |-> TRUE]
    /\ stage_starts = <<>>
    /\ hook_calls = <<>>
    /\ running = {}
    /\ commands_sent = 0
    /\ commands_completed = 0
    /\ failed_stage = "none"
    /\ raise_cause = "none"
    /\ breaker = NewBreaker
    /\ now = 0
    /\ exec_pc = "idle"
    /\ exec_plans = <<>>
    /\ exec_tasks = <<>>
    /\ endpoint = [n \in NodeIds |-> NoEndpointFailure]
    /\ calls_made = 0
    /\ exec_result = NoExecResult
    /\ component_ids = <<"pump">>
    /\ component_states = [c \in Components |-> None]
    /\ shutdown_status = "PENDING"
    /\ component_active = [c \in Components |-> TRUE]
    /\ sd_pc = "idle"
    /\ sd_idx = 1
    /\ sd_calls = 0
    /\ sd_log = <<>>
    /\ sd_result = NoShutdownResult
    /\ adapters = <<>>
    /\ system_priorities = [s \in Systems |-> 0]
    /\ connected = [s \in Systems |-> FALSE]
    /\ manager_calls = 0
    /\ last_read = NoRead
    /\ last_command = NoCommand
    /\ analysis_input = NoInput
    /\ analysis_result = NoAnalysis
    /\ strategies = InitialStrategies
    /\ current_strategy = "none"
    /\ current_context = NoScenarioContext
    /\ scenario_calls = 0
    /\ refused_scenarios = {}
    /\ last_scenario_op = NoScenarioOp
    /\ adj_pc = "pending"
    /\ adj_new_value = 250
    /\ adj_previous_value = None
    /\ adj_current_value = 250
    /\ adj_target = 250
    /\ adj_steps = 1
    /\ adj_i = 0
    /\ adj_intermediate = 250
    /\ loop_pc = "monitor"
    /\ loop_cycle = 0
    /\ loop_sensor_data = Unbound
    /\ loop_analysis = Unbound
    /\ loop_plans = Unbound
    /\ loop_calls = <<>>
    /\ loop_status = "running"
    /\ std_pc = "idle"
    /\ std_run = 0
    /\ std_sensor_data = NoValue
    /\ std_analysis_result = NoValue
    /\ std_execution_plan = NoValue
    /\ std_execution_result = NoValue
    /\ std_failed = {}
    /\ std_calls = <<>>

BusSpec == BusInit /\ [][NextBus]_vars

\* the event loop resumes a publish whose gather has ended; whether the
\* on_event of an observer ever ends is up to the observer
BusLiveSpec ==
    /\ BusSpec
    /\ \A p \in Publishers : WF_vars(GatherReturns(p))

\* Executor.__init__ and the breaker the decorator builds when the class is
\* defined; the clock starts at 0 and nothing else is in progress
ExecutorInit ==
    /\ breaker = NewBreaker
    /\ now = 0
    /\ exec_pc = "idle"
    /\ exec_plans = <<>>
    /\ exec_tasks = <<>>
    /\ endpoint = [n \in NodeIds |-> NoEndpointFailure]
    /\ calls_made = 0
    /\ exec_result = NoExecResult
    /\ observers = [t \in EventTypes |-> {}]
    /\ event_history = <<>>
    /\ metrics = [events_published |-> 0, events_filtered |-> 0,
                  observer_notifications |-> 0, notification_errors |-> 0]
    /\ pub_pc = [p \in Publishers |-> "idle"]
    /\ tasks = [p \in Publishers |-> [o \in Observers |-> "none"]]
    /\ pub_event = [p \in Publishers |-> NoEvent]
    /\ publish_count = 0
    /\ last_return = NoReturn
    /\ last_publish = NoPublish
    /\ status = [c \in Commands |-> "PENDING"]
    /\ previous_value = [c \in SpaCommands |-> None]
    /\ executed_commands = [c \in CompositeCommands |-> <<>>]
    /\ parameter_value = [t \in Targets |-> None]
    /\ last_writer = [t \in Targets |-> "none"]
    /\ fault_count = 0
    /\ command_history = <<>>
    /\ undo_stack = <<>>
    /\ redo_stack = <<>>
    /\ active_commands = {}
    /\ invoker_pc = "idle"
    /\ current_command = "none"
    /\ op_count = 0
    /\ last_op = NoOp
    /\ undo_snapshot = NoSnapshot
    /\ error_handling_strategy = "continue"
    /\ hooks_enabled = TRUE
    /\ performance_monitoring = TRUE
    /\ pc = "returned"
    /\ call_idx = 1
    /\ current_stage = "monitor"
    /\ attempt = 0
    /\ backoff_delays = <<>>
    /\ stage_metrics = <<>>
    /\ last_stage_end = [stage |-> "none", success |-> TRUE]
    /\ stage_starts = <<>>
    /\ hook_calls = <<>>
    /\ running = {}
    /\ commands_sent = 0
    /\ commands_completed = 0
    /\ failed_stage = "none"
    /\ raise_cause = "none"
    /\ component_ids = <<"pump">>
    /\ component_states = [c \in Components |-> None]
    /\ shutdown_status = "PENDING"
    /\ component_active = [c \in Components |-> TRUE]
    /\ sd_pc = "idle"
    /\ sd_idx = 1
    /\ sd_calls = 0
    /\ sd_log = <<>>
    /\ sd_result = NoShutdownResult
    /\ adapters = <<>>
    /\ system_priorities = [s \in Systems |-> 0]
    /\ connected = [s \in Systems |-> FALSE]
    /\ manager_calls = 0
    /\ last_read = NoRead
    /\ last_command = NoCommand
    /\ analysis_input = NoInput
    /\ analysis_result = NoAnalysis
    /\ strategies = InitialStrategies
    /\ current_strategy = "none"
    /\ current_context = NoScenarioContext
    /\ scenario_calls = 0
    /\ refused_scenarios = {}
    /\ last_scenario_op = NoScenarioOp
    /\ adj_pc = "pending"
    /\ adj_new_value = 250
    /\ adj_previous_value = None
    /\ adj_current_value = 250
    /\ adj_target = 250
    /\ adj_steps = 1
    /\ adj_i = 0
    /\ adj_intermediate = 250
    /\ loop_pc = "monitor"
    /\ loop_cycle = 0
    /\ loop_sensor_data = Unbound
    /\ loop_analysis = Unbound
    /\ loop_plans = Unbound
    /\ loop_calls = <<>>
    /\ loop_status = "running"
    /\ std_pc = "idle"
    /\ std_run = 0
    /\ std_sensor_data = NoValue
    /\ std_analysis_result = NoValue
    /\ std_execution_plan = NoValue
    /\ std_execution_result = NoValue
    /\ std_failed = {}
    /\ std_calls = <<>>

ExecutorSpec == ExecutorInit /\ [][NextExecutor]_vars

\* EmergencyShutdownCommand.__init__ over any list of components, every
\* component running
ShutdownInit ==
    /\ component_ids \in ComponentLists
    /\ breaker = NewBreaker
    /\ now = 0
    /\ exec_pc = "idle"
    /\ exec_plans = <<>>
    /\ exec_tasks = <<>>
    /\ endpoint = [n \in NodeIds |-> NoEndpointFailure]
    /\ calls_made = 0
    /\ exec_result = NoExecResult
    /\ observers = [t \in EventTypes |-> {}]
    /\ event_history = <<>>
    /\ metrics = [events_published |-> 0, events_filtered |-> 0,
                  observer_notifications |-> 0, notification_errors |-> 0]
    /\ pub_pc = [p \in Publishers |-> "idle"]
    /\ tasks = [p \in Publishers |-> [o \in Observers |-> "none"]]
    /\ pub_event = [p \in Publishers |-> NoEvent]
    /\ publish_count = 0
    /\ last_return = NoReturn
    /\ last_publish = NoPublish
    /\ status = [c \in Commands |-> "PENDING"]
    /\ previous_value = [c \in SpaCommands |-> None]
    /\ executed_commands = [c \in CompositeCommands |-> <<>>]
    /\ parameter_value = [t \in Targets |-> None]
    /\ last_writer = [t \in Targets |-> "none"]
    /\ fault_count = 0
    /\ command_history = <<>>
    /\ undo_stack = <<>>
    /\ redo_stack = <<>>
    /\ active_commands = {}
    /\ invoker_pc = "idle"
    /\ current_command = "none"
    /\ op_count = 0
    /\ last_op = NoOp
    /\ undo_snapshot = NoSnapshot
    /\ error_handling_strategy = "continue"
    /\ hooks_enabled = TRUE
    /\ performance_monitoring = TRUE
    /\ pc = "returned"
    /\ call_idx = 1
    /\ current_stage = "monitor"
    /\ attempt = 0
    /\ backoff_delays = <<>>
    /\ stage_metrics = <<>>
    /\ last_stage_end = [stage |-> "none", success |-> TRUE]
    /\ stage_starts = <<>>
    /\ hook_calls = <<>>
    /\ running = {}
    /\ commands_sent = 0
    /\ commands_completed = 0
    /\ failed_stage = "none"
    /\ raise_cause = "none"
    /\ component_states = [c \in Components |-> None]
    /\ shutdown_status = "PENDING"
    /\ component_active = [c \in Components |-> TRUE]
    /\ sd_pc = "idle"
    /\ sd_idx = 1
    /\ sd_calls = 0
    /\ sd_log = <<>>
    /\ sd_result = NoShutdownResult
    /\ adapters = <<>>
    /\ system_priorities = [s \in Systems |-> 0]
    /\ connected = [s \in Systems |-> FALSE]
    /\ manager_calls = 0
    /\ last_read = NoRead
    /\ last_command = NoCommand
    /\ analysis_input = NoInput
    /\ analysis_result = NoAnalysis
    /\ strategies = InitialStrategies
    /\ current_strategy = "none"
    /\ current_context = NoScenarioContext
    /\ scenario_calls = 0
    /\ refused_scenarios = {}
    /\ last_scenario_op = NoScenarioOp
    /\ adj_pc = "pending"
    /\ adj_new_value = 250
    /\ adj_previous_value = None
    /\ adj_current_value = 250
    /\ adj_target = 250
    /\ adj_steps = 1
    /\ adj_i = 0
    /\ adj_intermediate = 250
    /\ loop_pc = "monitor"
    /\ loop_cycle = 0
    /\ loop_sensor_data = Unbound
    /\ loop_analysis = Unbound
    /\ loop_plans = Unbound
    /\ loop_calls = <<>>
    /\ loop_status = "running"
    /\ std_pc = "idle"
    /\ std_run = 0
    /\ std_sensor_data = NoValue
    /\ std_analysis_result = NoValue
    /\ std_execution_plan = NoValue
    /\ std_execution_result = NoValue
    /\ std_failed = {}
    /\ std_calls = <<>>

ShutdownSpec == ShutdownInit /\ [][NextShutdown]_vars

\* MultiSystemIntegrationManager.__init__: no system added yet
ManagerInit ==
    /\ adapters = <<>>
    /\ breaker = NewBreaker
    /\ now = 0
    /\ exec_pc = "idle"
    /\ exec_plans = <<>>
    /\ exec_tasks = <<>>
    /\ endpoint = [n \in NodeIds |-> NoEndpointFailure]
    /\ calls_made = 0
    /\ exec_result = NoExecResult
    /\ observers = [t \in EventTypes |-> {}]
    /\ event_history = <<>>
    /\ metrics = [events_published |-> 0, events_filtered |-> 0,
                  observer_notifications |-> 0, notification_errors |-> 0]
    /\ pub_pc = [p \in Publishers |-> "idle"]
    /\ tasks = [p \in Publishers |-> [o \in Observers |-> "none"]]
    /\ pub_event = [p \in Publishers |-> NoEvent]
    /\ publish_count = 0
    /\ last_return = NoReturn
    /\ last_publish = NoPublish
    /\ status = [c \in Commands |-> "PENDING"]
    /\ previous_value = [c \in SpaCommands |-> None]
    /\ executed_commands = [c \in CompositeCommands |-> <<>>]
    /\ parameter_value = [t \in Targets |-> None]
    /\ last_writer = [t \in Targets |-> "none"]
    /\ fault_count = 0
    /\ command_history = <<>>
    /\ undo_stack = <<>>
    /\ redo_stack = <<>>
    /\ active_commands = {}
    /\ invoker_pc = "idle"
    /\ current_command = "none"
    /\ op_count = 0
    /\ last_op = NoOp
    /\ undo_snapshot = NoSnapshot
    /\ error_handling_strategy = "continue"
    /\ hooks_enabled = TRUE
    /\ performance_monitoring = TRUE
    /\ pc = "returned"
    /\ call_idx = 1
    /\ current_stage = "monitor"
    /\ attempt = 0
    /\ backoff_delays = <<>>
    /\ stage_metrics = <<>>
    /\ last_stage_end = [stage |-> "none", success |-> TRUE]
    /\ stage_starts = <<>>
    /\ hook_calls = <<>>
    /\ running = {}
    /\ commands_sent = 0
    /\ commands_completed = 0
    /\ failed_stage = "none"
    /\ raise_cause = "none"
    /\ component_ids = <<"pump">>
    /\ component_states = [c \in Components |-> None]
    /\ shutdown_status = "PENDING"
    /\ component_active = [c \in Components |-> TRUE]
    /\ sd_pc = "idle"
    /\ sd_idx = 1
    /\ sd_calls = 0
    /\ sd_log = <<>>
    /\ sd_result = NoShutdownResult
    /\ system_priorities = [s \in Systems |-> 0]
    /\ connected = [s \in Systems |-> FALSE]
    /\ manager_calls = 0
    /\ last_read = NoRead
    /\ last_command = NoCommand
    /\ analysis_input = NoInput
    /\ analysis_result = NoAnalysis
    /\ strategies = InitialStrategies
    /\ current_strategy = "none"
    /\ current_context = NoScenarioContext
    /\ scenario_calls = 0
    /\ refused_scenarios = {}
    /\ last_scenario_op = NoScenarioOp
    /\ adj_pc = "pending"
    /\ adj_new_value = 250
    /\ adj_previous_value = None
    /\ adj_current_value = 250
    /\ adj_target = 250
    /\ adj_steps = 1
    /\ adj_i = 0
    /\ adj_intermediate = 250
    /\ loop_pc = "monitor"
    /\ loop_cycle = 0
    /\ loop_sensor_data = Unbound
    /\ loop_analysis = Unbound
    /\ loop_plans = Unbound
    /\ loop_calls = <<>>
    /\ loop_status = "running"
    /\ std_pc = "idle"
    /\ std_run = 0
    /\ std_sensor_data = NoValue
    /\ std_analysis_result = NoValue
    /\ std_execution_plan = NoValue
    /\ std_execution_result = NoValue
    /\ std_failed = {}
    /\ std_calls = <<>>

ManagerSpec == ManagerInit /\ [][NextManager]_vars

\* any sensor data within the bounds, not analysed yet
AnalysisInit ==
    /\ analysis_input \in StrategyInputs \cup ServiceInputs
    /\ breaker = NewBreaker
    /\ now = 0
    /\ exec_pc = "idle"
    /\ exec_plans = <<>>
    /\ exec_tasks = <<>>
    /\ endpoint = [n \in NodeIds |-> NoEndpointFailure]
    /\ calls_made = 0
    /\ exec_result = NoExecResult
    /\ observers = [t \in EventTypes |-> {}]
    /\ event_history = <<>>
    /\ metrics = [events_published |-> 0, events_filtered |-> 0,
                  observer_notifications |-> 0, notification_errors |-> 0]
    /\ pub_pc = [p \in Publishers |-> "idle"]
    /\ tasks = [p \in Publishers |-> [o \in Observers |-> "none"]]
    /\ pub_event = [p \in Publishers |-> NoEvent]
    /\ publish_count = 0
    /\ last_return = NoReturn
    /\ last_publish = NoPublish
    /\ status = [c \in Commands |-> "PENDING"]
    /\ previous_value = [c \in SpaCommands |-> None]
    /\ executed_commands = [c \in CompositeCommands |-> <<>>]
    /\ parameter_value = [t \in Targets |-> None]
    /\ last_writer = [t \in Targets |-> "none"]
    /\ fault_count = 0
    /\ command_history = <<>>
    /\ undo_stack = <<>>
    /\ redo_stack = <<>>
    /\ active_commands = {}
    /\ invoker_pc = "idle"
    /\ current_command = "none"
    /\ op_count = 0
    /\ last_op = NoOp
    /\ undo_snapshot = NoSnapshot
    /\ error_handling_strategy = "continue"
    /\ hooks_enabled = TRUE
    /\ performance_monitoring = TRUE
    /\ pc = "returned"
    /\ call_idx = 1
    /\ current_stage = "monitor"
    /\ attempt = 0
    /\ backoff_delays = <<>>
    /\ stage_metrics = <<>>
    /\ last_stage_end = [stage |-> "none", success |-> TRUE]
    /\ stage_starts = <<>>
    /\ hook_calls = <<>>
    /\ running = {}
    /\ commands_sent = 0
    /\ commands_completed = 0
    /\ failed_stage = "none"
    /\ raise_cause = "none"
    /\ component_ids = <<"pump">>
    /\ component_states = [c \in Components |-> None]
    /\ shutdown_status = "PENDING"
    /\ component_active = [c \in Components |-> TRUE]
    /\ sd_pc = "idle"
    /\ sd_idx = 1
    /\ sd_calls = 0
    /\ sd_log = <<>>
    /\ sd_result = NoShutdownResult
    /\ adapters = <<>>
    /\ system_priorities = [s \in Systems |-> 0]
    /\ connected = [s \in Systems |-> FALSE]
    /\ manager_calls = 0
    /\ last_read = NoRead
    /\ last_command = NoCommand
    /\ analysis_result = NoAnalysis
    /\ strategies = InitialStrategies
    /\ current_strategy = "none"
    /\ current_context = NoScenarioContext
    /\ scenario_calls = 0
    /\ refused_scenarios = {}
    /\ last_scenario_op = NoScenarioOp
    /\ adj_pc = "pending"
    /\ adj_new_value = 250
    /\ adj_previous_value = None
    /\ adj_current_value = 250
    /\ adj_target = 250
    /\ adj_steps = 1
    /\ adj_i = 0
    /\ adj_intermediate = 250
    /\ loop_pc = "monitor"
    /\ loop_cycle = 0
    /\ loop_sensor_data = Unbound
    /\ loop_analysis = Unbound
    /\ loop_plans = Unbound
    /\ loop_calls = <<>>
    /\ loop_status = "running"
    /\ std_pc = "idle"
    /\ std_run = 0
    /\ std_sensor_data = NoValue
    /\ std_analysis_result = NoValue
    /\ std_execution_plan = NoValue
    /\ std_execution_result = NoValue
    /\ std_failed = {}
    /\ std_calls = <<>>

AnalysisSpec == AnalysisInit /\ [][NextAnalysis]_vars

\* a freshly constructed ScenarioAnalyzer
ScenarioInit ==
    /\ strategies = InitialStrategies
    /\ breaker = NewBreaker
    /\ now = 0
    /\ exec_pc = "idle"
    /\ exec_plans = <<>>
    /\ exec_tasks = <<>>
    /\ endpoint = [n \in NodeIds |-> NoEndpointFailure]
    /\ calls_made = 0
    /\ exec_result = NoExecResult
    /\ observers = [t \in EventTypes |-> {}]
    /\ event_history = <<>>
    /\ metrics = [events_published |-> 0, events_filtered |-> 0,
                  observer_notifications |-> 0, notification_errors |-> 0]
    /\ pub_pc = [p \in Publishers |-> "idle"]
    /\ tasks = [p \in Publishers |-> [o \in Observers |-> "none"]]
    /\ pub_event = [p \in Publishers |-> NoEvent]
    /\ publish_count = 0
    /\ last_return = NoReturn
    /\ last_publish = NoPublish
    /\ status = [c \in Commands |-> "PENDING"]
    /\ previous_value = [c \in SpaCommands |-> None]
    /\ executed_commands = [c \in CompositeCommands |-> <<>>]
    /\ parameter_value = [t \in Targets |-> None]
    /\ last_writer = [t \in Targets |-> "none"]
    /\ fault_count = 0
    /\ command_history = <<>>
    /\ undo_stack = <<>>
    /\ redo_stack = <<>>
    /\ active_commands = {}
    /\ invoker_pc = "idle"
    /\ current_command = "none"
    /\ op_count = 0
    /\ last_op = NoOp
    /\ undo_snapshot = NoSnapshot
    /\ error_handling_strategy = "continue"
    /\ hooks_enabled = TRUE
    /\ performance_monitoring = TRUE
    /\ pc = "returned"
    /\ call_idx = 1
    /\ current_stage = "monitor"
    /\ attempt = 0
    /\ backoff_delays = <<>>
    /\ stage_metrics = <<>>
    /\ last_stage_end = [stage |-> "none", success |-> TRUE]
    /\ stage_starts = <<>>
    /\ hook_calls = <<>>
    /\ running = {}
    /\ commands_sent = 0
    /\ commands_completed = 0
    /\ failed_stage = "none"
    /\ raise_cause = "none"
    /\ component_ids = <<"pump">>
    /\ component_states = [c \in Components |-> None]
    /\ shutdown_status = "PENDING"
    /\ component_active = [c \in Components |-> TRUE]
    /\ sd_pc = "idle"
    /\ sd_idx = 1
    /\ sd_calls = 0
    /\ sd_log = <<>>
    /\ sd_result = NoShutdownResult
    /\ adapters = <<>>
    /\ system_priorities = [s \in Systems |-> 0]
    /\ connected = [s \in Systems |-> FALSE]
    /\ manager_calls = 0
    /\ last_read = NoRead
    /\ last_command = NoCommand
    /\ analysis_input = NoInput
    /\ analysis_result = NoAnalysis
    /\ current_strategy = "none"
    /\ current_context = NoScenarioContext
    /\ scenario_calls = 0
    /\ refused_scenarios = {}
    /\ last_scenario_op = NoScenarioOp
    /\ adj_pc = "pending"
    /\ adj_new_value = 250
    /\ adj_previous_value = None
    /\ adj_current_value = 250
    /\ adj_target = 250
    /\ adj_steps = 1
    /\ adj_i = 0
    /\ adj_intermediate = 250
    /\ loop_pc = "monitor"
    /\ loop_cycle = 0
    /\ loop_sensor_data = Unbound
    /\ loop_analysis = Unbound
    /\ loop_plans = Unbound
    /\ loop_calls = <<>>
    /\ loop_status = "running"
    /\ std_pc = "idle"
    /\ std_run = 0
    /\ std_sensor_data = NoValue
    /\ std_analysis_result = NoValue
    /\ std_execution_plan = NoValue
    /\ std_execution_result = NoValue
    /\ std_failed = {}
    /\ std_calls = <<>>

ScenarioSpec == ScenarioInit /\ [][NextScenario]_vars

\* a SystemParameterAdjustmentCommand that has not run, for each new_value
AdjustInit ==
    /\ adj_new_value \in NewValues
    /\ breaker = NewBreaker
    /\ now = 0
    /\ exec_pc = "idle"
    /\ exec_plans = <<>>
    /\ exec_tasks = <<>>
    /\ endpoint = [n \in NodeIds |-> NoEndpointFailure]
    /\ calls_made = 0
    /\ exec_result = NoExecResult
    /\ observers = [t \in EventTypes |-> {}]
    /\ event_history = <<>>
    /\ metrics = [events_published |-> 0, events_filtered |-> 0,
                  observer_notifications |-> 0, notification_errors |-> 0]
    /\ pub_pc = [p \in Publishers |-> "idle"]
    /\ tasks = [p \in Publishers |-> [o \in Observers |-> "none"]]
    /\ pub_event = [p \in Publishers |-> NoEvent]
    /\ publish_count = 0
    /\ last_return = NoReturn
    /\ last_publish = NoPublish
    /\ status = [c \in Commands |-> "PENDING"]
    /\ previous_value = [c \in SpaCommands |-> None]
    /\ executed_commands = [c \in CompositeCommands |-> <<>>]
    /\ parameter_value = [t \in Targets |-> None]
    /\ last_writer = [t \in Targets |-> "none"]
    /\ fault_count = 0
    /\ command_history = <<>>
    /\ undo_stack = <<>>
    /\ redo_stack = <<>>
    /\ active_commands = {}
    /\ invoker_pc = "idle"
    /\ current_command = "none"
    /\ op_count = 0
    /\ last_op = NoOp
    /\ undo_snapshot = NoSnapshot
    /\ error_handling_strategy = "continue"
    /\ hooks_enabled = TRUE
    /\ performance_monitoring = TRUE
    /\ pc = "returned"
    /\ call_idx = 1
    /\ current_stage = "monitor"
    /\ attempt = 0
    /\ backoff_delays = <<>>
    /\ stage_metrics = <<>>
    /\ last_stage_end = [stage |-> "none", success |-> TRUE]
    /\ stage_starts = <<>>
    /\ hook_calls = <<>>
    /\ running = {}
    /\ commands_sent = 0
    /\ commands_completed = 0
    /\ failed_stage = "none"
    /\ raise_cause = "none"
    /\ component_ids = <<"pump">>
    /\ component_states = [c \in Components |-> None]
    /\ shutdown_status = "PENDING"
    /\ component_active = [c \in Components |-> TRUE]
    /\ sd_pc = "idle"
    /\ sd_idx = 1
    /\ sd_calls = 0
    /\ sd_log = <<>>
    /\ sd_result = NoShutdownResult
    /\ adapters = <<>>
    /\ system_priorities = [s \in Systems |-> 0]
    /\ connected = [s \in Systems |-> FALSE]
    /\ manager_calls = 0
    /\ last_read = NoRead
    /\ last_command = NoCommand
    /\ analysis_input = NoInput
    /\ analysis_result = NoAnalysis
    /\ strategies = InitialStrategies
    /\ current_strategy = "none"
    /\ current_context = NoScenarioContext
    /\ scenario_calls = 0
    /\ refused_scenarios = {}
    /\ last_scenario_op = NoScenarioOp
    /\ adj_pc = "pending"
    /\ adj_previous_value = None
    /\ adj_current_value = 250
    /\ adj_target = 250
    /\ adj_steps = 1
    /\ adj_i = 0
    /\ adj_intermediate = 250
    /\ loop_pc = "monitor"
    /\ loop_cycle = 0
    /\ loop_sensor_data = Unbound
    /\ loop_analysis = Unbound
    /\ loop_plans = Unbound
    /\ loop_calls = <<>>
    /\ loop_status = "running"
    /\ std_pc = "idle"
    /\ std_run = 0
    /\ std_sensor_data = NoValue
    /\ std_analysis_result = NoValue
    /\ std_execution_plan = NoValue
    /\ std_execution_result = NoValue
    /\ std_failed = {}
    /\ std_calls = <<>>

AdjustSpec == AdjustInit /\ [][NextAdjust]_vars

\* a bus to which every observer has subscribed
BusMetricsInit ==
    /\ observers = [t \in EventTypes |-> {o \in Observers : t \in interested_events[o]}]
    /\ breaker = NewBreaker
    /\ now = 0
    /\ exec_pc = "idle"
    /\ exec_plans = <<>>
    /\ exec_tasks = <<>>
    /\ endpoint = [n \in NodeIds |-> NoEndpointFailure]
    /\ calls_made = 0
    /\ exec_result = NoExecResult
    /\ event_history = <<>>
    /\ metrics = [events_published |-> 0, events_filtered |-> 0,
                  observer_notifications |-> 0, notification_errors |-> 0]
    /\ pub_pc = [p \in Publishers |-> "idle"]
    /\ tasks = [p \in Publishers |-> [o \in Observers |-> "none"]]
    /\ pub_event = [p \in Publishers |-> NoEvent]
    /\ publish_count = 0
    /\ last_return = NoReturn
    /\ last_publish = NoPublish
    /\ status = [c \in Commands |-> "PENDING"]
    /\ previous_value = [c \in SpaCommands |-> None]
    /\ executed_commands = [c \in CompositeCommands |-> <<>>]
    /\ parameter_value = [t \in Targets |-> None]
    /\ last_writer = [t \in Targets |-> "none"]
    /\ fault_count = 0
    /\ command_history = <<>>
    /\ undo_stack = <<>>
    /\ redo_stack = <<>>
    /\ active_commands = {}
    /\ invoker_pc = "idle"
    /\ current_command = "none"
    /\ op_count = 0
    /\ last_op = NoOp
    /\ undo_snapshot = NoSnapshot
    /\ error_handling_strategy = "continue"
    /\ hooks_enabled = TRUE
    /\ performance_monitoring = TRUE
    /\ pc = "returned"
    /\ call_idx = 1
    /\ current_stage = "monitor"
    /\ attempt = 0
    /\ backoff_delays = <<>>
    /\ stage_metrics = <<>>
    /\ last_stage_end = [stage |-> "none", success |-> TRUE]
    /\ stage_starts = <<>>
    /\ hook_calls = <<>>
    /\ running = {}
    /\ commands_sent = 0
    /\ commands_completed = 0
    /\ failed_stage = "none"
    /\ raise_cause = "none"
    /\ component_ids = <<"pump">>
    /\ component_states = [c \in Components |-> None]
    /\ shutdown_status = "PENDING"
    /\ component_active = [c \in Components |-> TRUE]
    /\ sd_pc = "idle"
    /\ sd_idx = 1
    /\ sd_calls = 0
    /\ sd_log = <<>>
    /\ sd_result = NoShutdownResult
    /\ adapters = <<>>
    /\ system_priorities = [s \in Systems |-> 0]
    /\ connected = [s \in Systems |-> FALSE]
    /\ manager_calls = 0
    /\ last_read = NoRead
    /\ last_command = NoCommand
    /\ analysis_input = NoInput
    /\ analysis_result = NoAnalysis
    /\ strategies = InitialStrategies
    /\ current_strategy = "none"
    /\ current_context = NoScenarioContext
    /\ scenario_calls = 0
    /\ refused_scenarios = {}
    /\ last_scenario_op = NoScenarioOp
    /\ adj_pc = "pending"
    /\ adj_new_value = 250
    /\ adj_previous_value = None
    /\ adj_current_value = 250
    /\ adj_target = 250
    /\ adj_steps = 1
    /\ adj_i = 0
    /\ adj_intermediate = 250
    /\ loop_pc = "monitor"
    /\ loop_cycle = 0
    /\ loop_sensor_data = Unbound
    /\ loop_analysis = Unbound
    /\ loop_plans = Unbound
    /\ loop_calls = <<>>
    /\ loop_status = "running"
    /\ std_pc = "idle"
    /\ std_run = 0
    /\ std_sensor_data = NoValue
    /\ std_analysis_result = NoValue
    /\ std_execution_plan = NoValue
    /\ std_execution_result = NoValue
    /\ std_failed = {}
    /\ std_calls = <<>>

BusMetricsSpec == BusMetricsInit /\ [][NextBusMetrics]_vars

\* run_loop entered, at the top of its first iteration, and a standard
\* pipeline on which execute_pipeline has not been called
CycleInit ==
    /\ breaker = NewBreaker
    /\ now = 0
    /\ exec_pc = "idle"
    /\ exec_plans = <<>>
    /\ exec_tasks = <<>>
    /\ endpoint = [n \in NodeIds |-> NoEndpointFailure]
    /\ calls_made = 0
    /\ exec_result = NoExecResult
    /\ observers = [t \in EventTypes |-> {}]
    /\ event_history = <<>>
    /\ metrics = [events_published |-> 0, events_filtered |-> 0,
                  observer_notifications |-> 0, notification_errors |-> 0]
    /\ pub_pc = [p \in Publishers |-> "idle"]
    /\ tasks = [p \in Publishers |-> [o \in Observers |-> "none"]]
    /\ pub_event = [p \in Publishers |-> NoEvent]
    /\ publish_count = 0
    /\ last_return = NoReturn
    /\ last_publish = NoPublish
    /\ status = [c \in Commands |-> "PENDING"]
    /\ previous_value = [c \in SpaCommands |-> None]
    /\ executed_commands = [c \in CompositeCommands |-> <<>>]
    /\ parameter_value = [t \in Targets |-> None]
    /\ last_writer = [t \in Targets |-> "none"]
    /\ fault_count = 0
    /\ command_history = <<>>
    /\ undo_stack = <<>>
    /\ redo_stack = <<>>
    /\ active_commands = {}
    /\ invoker_pc = "idle"
    /\ current_command = "none"
    /\ op_count = 0
    /\ last_op = NoOp
    /\ undo_snapshot = NoSnapshot
    /\ error_handling_strategy = "continue"
    /\ hooks_enabled = TRUE
    /\ performance_monitoring = TRUE
    /\ pc = "returned"
    /\ call_idx = 1
    /\ current_stage = "monitor"
    /\ attempt = 0
    /\ backoff_delays = <<>>
    /\ stage_metrics = <<>>
    /\ last_stage_end = [stage |-> "none", success |-> TRUE]
    /\ stage_starts = <<>>
    /\ hook_calls = <<>>
    /\ running = {}
    /\ commands_sent = 0
    /\ commands_completed = 0
    /\ failed_stage = "none"
    /\ raise_cause = "none"
    /\ component_ids = <<"pump">>
    /\ component_states = [c \in Components |-> None]
    /\ shutdown_status = "PENDING"
    /\ component_active = [c \in Components |-> TRUE]
    /\ sd_pc = "idle"
    /\ sd_idx = 1
    /\ sd_calls = 0
    /\ sd_log = <<>>
    /\ sd_result = NoShutdownResult
    /\ adapters = <<>>
    /\ system_priorities = [s \in Systems |-> 0]
    /\ connected = [s \in Systems |-> FALSE]
    /\ manager_calls = 0
    /\ last_read = NoRead
    /\ last_command = NoCommand
    /\ analysis_input = NoInput
    /\ analysis_result = NoAnalysis
    /\ strategies = InitialStrategies
    /\ current_strategy = "none"
    /\ current_context = NoScenarioContext
    /\ scenario_calls = 0
    /\ refused_scenarios = {}
    /\ last_scenario_op = NoScenarioOp
    /\ adj_pc = "pending"
    /\ adj_new_value = 250
    /\ adj_previous_value = None
    /\ adj_current_value = 250
    /\ adj_target = 250
    /\ adj_steps = 1
    /\ adj_i = 0
    /\ adj_intermediate = 250
    /\ loop_pc = "monitor"
    /\ loop_cycle = 0
    /\ loop_sensor_data = Unbound
    /\ loop_analysis = Unbound
    /\ loop_plans = Unbound
    /\ loop_calls = <<>>
    /\ loop_status = "running"
    /\ std_pc = "idle"
    /\ std_run = 0
    /\ std_sensor_data = NoValue
    /\ std_analysis_result = NoValue
    /\ std_execution_plan = NoValue
    /\ std_execution_result = NoValue
    /\ std_failed = {}
    /\ std_calls = <<>>

CycleSpec == CycleInit /\ [][NextCycle]_vars

\* run_loop alone; the event loop ends each asyncio.sleep after its delay,
\* whether a service call ever returns is up to the service
LoopSpec == CycleInit /\ [][NextLoop]_vars

LoopLiveSpec ==
    /\ LoopSpec
    /\ WF_vars(LoopSleepReturns)

\* the standard pipeline alone
StandardSpec == CycleInit /\ [][NextStandard]_vars

(***************************************************************************)
(* Properties of the pipeline template (PipelineSpec)                      *)
(***************************************************************************)
StageRank(s) ==
    CASE s = "monitor" -> 1
      [] s = "analyze" -> 2
      [] s = "plan"    -> 3
      [] s = "execute" -> 4
      [] OTHER         -> 5

StartCount(s) == Cardinality({i \in DOMAIN stage_starts : stage_starts[i] = s})

\* C1: in every run of execute_pipeline the stage bodies are entered in the
\* order Monitor, Analyze, Plan, Execute, KnowledgeUpdate: the first body
\* entered is Monitor, each next one is the same stage again (a retry, under
\* the retry policy only) or the stage that follows it, and a body is entered
\* only when no earlier body is still running.
C1_StagesStartInOrder ==
    /\ stage_starts # <<>> => stage_starts[1] = "monitor"
    /\ \A i \in 1..(Len(stage_starts) - 1) :
          \/ StageRank(stage_starts[i + 1]) = StageRank(stage_starts[i]) + 1
          \/ /\ stage_starts[i + 1] = stage_starts[i]
             /\ error_handling_strategy = "retry"
    /\ running \subseteq
          (IF stage_starts = <<>> THEN {} ELSE {stage_starts[Len(stage_starts)]})

C1_Witness ==
    /\ pc = "returned"
    /\ failed_stage = "analyze"
    /\ stage_starts = <<"monitor", "analyze", "plan", "execute", "knowledge_update">>

\* C2: under the abort policy, once a stage body has raised no further stage
\* body is entered and no further command is dispatched; every command
\* dispatched in the cycle has completed by then, and after a failure of
\* Monitor, Analyze or Plan the Execute stage has not run and no command has
\* been dispatched at all.
C2_AbortStopsCycle ==
    /\ [](  (error_handling_strategy = "abort" /\ failed_stage # "none")
         => /\ commands_completed = commands_sent
            /\ failed_stage \in {"monitor", "analyze", "plan"}
                 => /\ StartCount("execute") = 0
                    /\ commands_sent = 0)
    /\ [][  (error_handling_strategy = "abort" /\ failed_stage # "none")
         => /\ stage_starts' = stage_starts
            /\ commands_sent' = commands_sent ]_vars

C2_Witness ==
    /\ error_handling_strategy = "abort"
    /\ failed_stage = "plan"
    /\ pc = "raised"

\* C3 as stated: whatever the stage failures, execute_pipeline raises only under
\* the abort policy (a failure of a hook aside).
C3_FailsOnlyUnderAbort ==
    (pc = "raised" /\ raise_cause # "hook") => error_handling_strategy = "abort"

\* C3, amended: execute_pipeline raises only if a hook raised, a stage body
\* raised under the abort policy, or under the retry policy a stage body raised
\* in its first run and in each of its max_retries retries; under the continue
\* policy, whatever the stage failures, it does not raise unless a hook did.
C3_FailsOnlyOnAbortOrExhaustedRetry ==
    /\ pc \in {"except", "raised"} =>
          \/ raise_cause = "hook"
          \/ /\ raise_cause = "stage"
             /\ error_handling_strategy = "abort"
             /\ failed_stage = current_stage
          \/ /\ raise_cause = "retry"
             /\ error_handling_strategy = "retry"
             /\ failed_stage # "none"
             /\ StartCount(current_stage) = max_retries + 1
    /\ (error_handling_strategy = "continue" /\ raise_cause # "hook")
          => pc \notin {"except", "raised"}

C3_Witness ==
    /\ pc = "raised"
    /\ raise_cause = "retry"
    /\ hooks_enabled

\* the stages whose failure the metrics record
FailedStages ==
    {stage_metrics[i].stage : i \in {j \in DOMAIN stage_metrics :
                                       ~stage_metrics[j].success}}

\* C20: under the continue policy no failure of a stage body, that of the
\* knowledge update included, makes execute_pipeline raise: each stage body is
\* entered once, the stages after a failed one follow in the fixed order, and
\* once the five stages are over execute_pipeline returns the context (it
\* raises only if a hook of a subclass raises).
C20_ContinueRunsRemainingStages ==
    error_handling_strategy = "continue"
    => /\ raise_cause \in {"none", "hook"}
       /\ \A i \in DOMAIN stage_starts : stage_starts[i] = StageOrder[i]
       /\ failed_stage # "none"
          => \A k \in 1..Len(StageOrder) :
                (call_idx > k \/ pc \in {"post_hook", "returned"})
                => (k <= Len(stage_starts) /\ stage_starts[k] = StageOrder[k])
       /\ pc \in {"post_hook", "returned"} => stage_starts = StageOrder
       /\ (pc \in {"except", "raised"}) => raise_cause = "hook"

\* monitor and the knowledge update have both failed and the context is returned
C20_Witness ==
    /\ error_handling_strategy = "continue"
    /\ pc = "returned"
    /\ {"monitor", "knowledge_update"} \subseteq FailedStages
    /\ stage_starts = StageOrder

\* the sleeps of a _retry_stage call that has entered the body k times
ExpectedDelays(k) == [i \in 1..k |-> 2 ^ (i - 1)]

\* C21: under the retry policy the r-th retry of a failed stage follows a sleep
\* of 2^(r-1) seconds; a stage body is entered at most max_retries + 1 times in
\* a cycle; a retry that succeeds hands control to the next stage (or to the
\* post hook after the last); and when the last retry fails execute_pipeline
\* raises with no later stage entered.
C21_RetryBackoffAndCap ==
    /\ []( error_handling_strategy = "retry"
           => /\ \A s \in Range(StageOrder) : StartCount(s) <= max_retries + 1
              /\ pc \in {"retry_sleep", "retry_body"}
                 => /\ Len(backoff_delays) <= max_retries
                    /\ backoff_delays = ExpectedDelays(Len(backoff_delays))
                    /\ StartCount(current_stage) = Len(backoff_delays) + 1
              /\ raise_cause = "retry"
                 => /\ pc \in {"except", "raised"}
                    /\ backoff_delays = ExpectedDelays(max_retries)
                    /\ StartCount(current_stage) = max_retries + 1
                    /\ stage_starts[Len(stage_starts)] = current_stage
                    /\ running = {} )
    /\ [][ (pc = "retry_body" /\ pc' # "retry_body")
           => \/ /\ pc' = "call" /\ call_idx' = call_idx + 1
                 /\ call_idx < NumStages
              \/ pc' = "post_hook" /\ call_idx = NumStages
              \/ pc' = "retry_sleep" /\ attempt' = attempt + 1
                 /\ attempt < max_retries - 1
              \/ pc' = "except" /\ attempt = max_retries - 1 ]_vars

\* the second stage has raised after three retries that slept 1, 2 and 4 s,
\* after the first stage had recovered in a retry
C21_Witness ==
    /\ error_handling_strategy = "retry"
    /\ pc = "raised"
    /\ raise_cause = "retry"
    /\ backoff_delays = <<1, 2, 4>>
    /\ stage_starts = <<"monitor", "monitor", "analyze", "analyze", "analyze",
                        "analyze">>

\* the entries of the metrics for stage s
MetricsOf(s) == {i \in DOMAIN stage_metrics : stage_metrics[i].stage = s}

\* C22 as stated: under every policy and configuration, once the _execute_stage
\* call of a stage has ended the metrics hold exactly one entry for that stage,
\* whose success flag tells whether the stage ended in success; no stage has
\* more than one entry, and the entries are in stage order.
C22_OneMetricPerStage ==
    /\ \A s \in Range(StageOrder) : Cardinality(MetricsOf(s)) <= 1
    /\ \A i, j \in DOMAIN stage_metrics :
          i < j => StageRank(stage_metrics[i].stage) < StageRank(stage_metrics[j].stage)
    /\ last_stage_end.stage # "none"
       => \E i \in DOMAIN stage_metrics :
             /\ MetricsOf(last_stage_end.stage) = {i}
             /\ stage_metrics[i].success = last_stage_end.success

\* how often a hook has been invoked
HookCount(h) == Cardinality({i \in DOMAIN hook_calls : hook_calls[i] = h})

\* the hooks stay out of the stages: a stage body is entered only after the one
\* pre-execution call (none with hooks disabled) and before any other hook, and
\* the stage bodies follow the fixed order whether hooks are enabled or not
HooksAroundTheCycle ==
    /\ [][ stage_starts' # stage_starts
           => /\ hook_calls' = hook_calls
              /\ hook_calls = IF hooks_enabled THEN <<"pre_execution">> ELSE <<>> ]_vars
    /\ [][ hook_calls' # hook_calls
           => \/ /\ hook_calls' = <<"pre_execution">>
                 /\ stage_starts = <<>>
              \/ /\ hook_calls # <<>>
                 /\ pc \in {"post_hook", "except"}
                 /\ stage_starts' = stage_starts /\ running = {} ]_vars
    /\ []( /\ ~hooks_enabled => hook_calls = <<>>
           /\ \A i \in 1..(Len(stage_starts) - 1) :
                 \/ StageRank(stage_starts[i + 1]) = StageRank(stage_starts[i]) + 1
                 \/ /\ stage_starts[i + 1] = stage_starts[i]
                    /\ error_handling_strategy = "retry" )

\* C23 as stated: with hooks enabled pre_execution is invoked once, before the
\* monitor stage; when execute_pipeline has ended exactly one of post_execution
\* and on_error has been invoked, once, post_execution if it returned and
\* on_error if it raised; no hook is invoked between two stages and the stage
\* order does not depend on the hooks.
C23_ExactlyOneClosingHook ==
    /\ HooksAroundTheCycle
    /\ []( (hooks_enabled /\ pc # "pre_hook")
           => HookCount("pre_execution") = 1 /\ hook_calls[1] = "pre_execution" )
    /\ []( (hooks_enabled /\ pc \in {"returned", "raised"})
           => /\ HookCount("post_execution") + HookCount("on_error") = 1
              /\ pc = "returned" <=> HookCount("post_execution") = 1 )

\* C23, amended: with hooks enabled pre_execution is invoked once, before the
\* monitor stage; a cycle that returns has invoked post_execution once and not
\* on_error; a cycle that raises has invoked on_error once, as its last hook,
\* and has invoked post_execution before it exactly when post_execution is what
\* raised after the five stages; no hook is invoked between two stages and the
\* stage order does not depend on the hooks.
C23_ClosingHooks ==
    /\ HooksAroundTheCycle
    /\ []( (hooks_enabled /\ pc # "pre_hook")
           => HookCount("pre_execution") = 1 /\ hook_calls[1] = "pre_execution" )
    /\ []( (hooks_enabled /\ pc = "returned")
           => hook_calls = <<"pre_execution", "post_execution">> )
    /\ []( (hooks_enabled /\ pc = "raised")
           => IF raise_cause = "hook" /\ Len(stage_starts) >= NumStages
              THEN hook_calls = <<"pre_execution", "post_execution", "on_error">>
              ELSE hook_calls = <<"pre_execution", "on_error">> )

\* the post-execution hook raised after the five stages, and on_error followed
C23_Witness ==
    /\ hooks_enabled
    /\ pc = "raised"
    /\ stage_starts = StageOrder
    /\ hook_calls = <<"pre_execution", "post_execution", "on_error">>

(***************************************************************************)
(* Properties of the command invoker (CommandSpec)                         *)
(***************************************************************************)
\* the step is a call of the invoker that returns with last_op' as its outcome
Returns(op) ==
    /\ last_op'.op = op
    /\ invoker_pc' = "idle"
    /\ \/ op_count' # op_count
       \/ invoker_pc = "executing"

\* C4: execute_command on a command with a prerequisite that is not COMPLETED
\* returns a failure without running the command's execute and changes neither
\* the status of any command nor the history, the undo stack, the redo stack or
\* the active-command set; the command's execute is awaited only when all its
\* prerequisites are COMPLETED.
C4_RefusesUnsatisfiedPrerequisites ==
    [][ /\ (invoker_pc = "idle" /\ invoker_pc' = "executing")
           => \A p \in prerequisites[current_command'] : status[p] = "COMPLETED"
        /\ (Returns("execute") /\ invoker_pc = "idle")
           => /\ last_op'.refused
              /\ \E p \in prerequisites[last_op'.cmd] : status[p] # "COMPLETED"
              /\ ~last_op'.success
              /\ last_op'.executed = <<>>
              /\ status' = status
              /\ command_history' = command_history
              /\ undo_stack' = undo_stack
              /\ redo_stack' = redo_stack
              /\ active_commands' = active_commands ]_vars

C4_Witness ==
    /\ last_op.op = "execute"
    /\ last_op.refused
    /\ last_op.cmd = "unsafe"
    /\ undo_stack # <<>>

\* the commands whose undo ran in the last call, in the order it ran
UndoneCommands == [i \in 1..Len(last_op.undone) |-> last_op.undone[i][1]]

\* C5 as stated: when the execute of the sequential composite fails at its k-th
\* sub-command, the sub-commands after it have not run, the undo of exactly the
\* k-1 sub-commands before it has run, last executed first, and the composite's
\* status is FAILED.
C5_SequentialRollback ==
    (/\ last_op.op \in {"execute", "redo"}
     /\ last_op.cmd = "seq_cmd"
     /\ ~last_op.refused
     /\ ~last_op.success)
    => LET k == Len(last_op.executed) - 1
       IN  /\ k >= 1
           /\ SubSeq(last_op.executed, 2, k + 1) = SubSeq(sub_commands["seq_cmd"], 1, k)
           /\ UndoneCommands = [i \in 1..(k - 1) |-> sub_commands["seq_cmd"][k - i]]
           /\ status["seq_cmd"] = "FAILED"

\* an undo_last_command of a command with can_undo() true succeeded, and the
\* redo_last_command called next succeeded
C6_UndoneThenRedone ==
    /\ undo_snapshot.phase = "redone"
    /\ undo_snapshot.success
    /\ undo_snapshot.can_undo
    /\ last_op.op = "redo"
    /\ last_op.success

C6_Restored ==
    LET c == undo_snapshot.cmd
    IN  /\ last_op.cmd = c
        /\ status[c] = "COMPLETED"
        /\ \A s \in Subs(c) :
              parameter_value[Target(s)] = undo_snapshot.parameter_value[Target(s)]
        /\ undo_stack # <<>>
        /\ undo_stack[Len(undo_stack)] = c
        /\ redo_stack = undo_snapshot.redo_stack

\* C6 as stated: for a command c executed through the invoker, on top of the
\* undo stack with can_undo() true, a successful undo_last_command followed by a
\* successful redo_last_command leaves c COMPLETED, each parameter c adjusts at
\* its value from before the undo, c on top of the undo stack and the redo
\* stack as before the undo.
C6_UndoRedoLaw ==
    C6_UndoneThenRedone => C6_Restored

\* C7: when the undo of the command popped by undo_last_command, or the redo of
\* the command popped by redo_last_command, fails, the undo stack and the redo
\* stack are as before the call, with the attempted command on top of the stack
\* it came from, so that the next such call attempts it again.
C7_FailureKeepsStacks ==
    [][ \A op \in {"undo", "redo"} :
          (Returns(op) /\ last_op'.cmd # "none" /\ ~last_op'.success)
          => /\ undo_stack' = undo_stack
             /\ redo_stack' = redo_stack
             /\ LET stack == IF op = "undo" THEN undo_stack' ELSE redo_stack'
                IN  stack # <<>> /\ stack[Len(stack)] = last_op'.cmd ]_vars

C7_Witness ==
    /\ last_op.op = "undo"
    /\ last_op.cmd # "none"
    /\ ~last_op.success
    /\ redo_stack # <<>>

\* C8: when execute_command succeeds the command is appended to the history
\* (the oldest entry leaving a full history) and, if it then reports can_undo,
\* it is pushed on top of the undo stack and the redo stack is emptied; when
\* execute_command fails, the history and both stacks are unchanged.
C8_ExecuteBookkeeping ==
    [][ Returns("execute") =>
          IF last_op'.success
          THEN /\ command_history' =
                     Append(IF Len(command_history) < max_history_size
                            THEN command_history ELSE Tail(command_history),
                            last_op'.cmd)
               /\ last_op'.can_undo
                     => /\ undo_stack' = Append(undo_stack, last_op'.cmd)
                        /\ redo_stack' = <<>>
          ELSE /\ command_history' = command_history
               /\ undo_stack' = undo_stack
               /\ redo_stack' = redo_stack ]_vars

C8_Witness ==
    /\ last_op.op = "execute"
    /\ last_op.success
    /\ last_op.can_undo
    /\ Len(undo_stack) >= 2
    /\ Len(command_history) = max_history_size

\* C9 as stated: after every successful execute_command the redo stack is empty.
C9_ExecuteEmptiesRedo ==
    (last_op.op = "execute" /\ last_op.success) => redo_stack = <<>>

\* C10 as stated: the undo of a command runs only when the command's status is
\* COMPLETED, in every call of the invoker.
C10_UndoOnlyCompleted ==
    \A i \in 1..Len(last_op.undone) : last_op.undone[i][2] = "COMPLETED"

\* CommandStatus lifecycle: the transitions the lifecycle allows in one step, and
\* the status changes a chain of such steps can make
LifecycleStep ==
    {<<"PENDING", "EXECUTING">>, <<"EXECUTING", "COMPLETED">>,
     <<"EXECUTING", "FAILED">>, <<"COMPLETED", "UNDONE">>}
LifecyclePath ==
    LifecycleStep \cup
    {<<"PENDING", "COMPLETED">>, <<"PENDING", "FAILED">>, <<"PENDING", "UNDONE">>,
     <<"EXECUTING", "UNDONE">>}

\* C11 as stated: the status of the command an invoker call is about changes
\* only by a step of the lifecycle PENDING -> EXECUTING -> COMPLETED | FAILED,
\* COMPLETED -> UNDONE, the status of a sub-command changes within a call only
\* along a chain of such steps, and once an execute_command call that was not
\* refused has returned its command is not EXECUTING.
C11_StatusLifecycle ==
    /\ [][ \A c \in Commands :
             status'[c] # status[c]
             => IF c \in Invocable
                THEN <<status[c], status'[c]>> \in LifecycleStep
                ELSE <<status[c], status'[c]>> \in LifecyclePath ]_vars
    /\ []( (invoker_pc = "idle" /\ last_op.op = "execute" /\ ~last_op.refused)
           => status[last_op.cmd] # "EXECUTING" )

\* C12 as stated: no invoker call (execute_command, redo_last_command, with the
\* sub-commands of a composite in sequential or parallel mode) enters the
\* execute body of a command while one of its prerequisites is not COMPLETED.
C12_PrerequisitesOnEveryPath ==
    last_op.unmet = {}

\* C13 as stated: the command history, the undo stack and the redo stack each
\* hold at most max_history_size entries, and a call that would exceed the bound
\* on the history drops its oldest entry.
C13_HistoryAndStacksBounded ==
    /\ []( /\ Len(command_history) <= max_history_size
           /\ Len(undo_stack) <= max_history_size
           /\ Len(redo_stack) <= max_history_size )
    /\ [][ (Returns("execute") /\ last_op'.success
              /\ Len(command_history) = max_history_size)
           => command_history' = Append(Tail(command_history), last_op'.cmd) ]_vars

\* C24 as stated: when a sub-command of the parallel composite fails, by a
\* failure result or by raising, the composite reports failure and the undo of
\* every sub-command that completed has run.
C24_ParallelFailureRollsBackAll ==
    (/\ last_op.op \in {"execute", "redo"}
     /\ last_op.cmd = "par_cmd"
     /\ ~last_op.refused)
    => /\ last_op.success => \A q \in Subs("par_cmd") : status[q] = "COMPLETED"
       /\ ~last_op.success =>
              \A q \in Subs("par_cmd") :
                  status[q] = "COMPLETED" =>
                      \E i \in 1..Len(UndoneCommands) : UndoneCommands[i] = q

\* C25 as stated: after the execute of a composite, sequential or parallel,
\* can_undo() is true exactly when a sub-command it executed is undoable, and a
\* composite that succeeded with an undoable sub-command is on top of the undo
\* stack.
C25_CompositeCanUndo ==
    (/\ last_op.op = "execute"
     /\ last_op.cmd \in CompositeCommands
     /\ ~last_op.refused)
    => LET undoable == \E i \in 2..Len(last_op.executed) :
                           Sub_can_undo(World, last_op.executed[i])
       IN  /\ last_op.can_undo <=> undoable
           /\ (last_op.success /\ undoable) =>
                  /\ undo_stack # <<>>
                  /\ undo_stack[Len(undo_stack)] = last_op.cmd

\* C26: the execute of an adjustment whose new value is outside the safety limits
\* of its parameter fails before acting: the device is not written, no previous
\* value is captured, the command is not undoable, the history and both stacks
\* stay as they were without it, and no other command changes status.
OutsideEnvelope(c) ==
    new_value[c] < safety_limits(c)[1] \/ new_value[c] > safety_limits(c)[2]
C26_OutOfLimitsFailsBeforeActing ==
    [][(/\ invoker_pc = "executing"
        /\ invoker_pc' = "idle"
        /\ current_command \in SpaCommands
        /\ OutsideEnvelope(current_command))
       => LET c == current_command
          IN  /\ last_op'.cmd = c /\ ~last_op'.success
              /\ parameter_value' = parameter_value
              /\ last_writer' = last_writer
              /\ previous_value'[c] = None
              /\ ~last_op'.can_undo
              /\ <<command_history, undo_stack, redo_stack>>' =
                     <<command_history, undo_stack, redo_stack>>
              /\ \A i \in 1..Len(undo_stack') : undo_stack'[i] # c
              /\ \A i \in 1..Len(redo_stack') : redo_stack'[i] # c
              /\ \A d \in Commands \ {c} :
                     status'[d] = status[d] /\ (d \in SpaCommands =>
                         previous_value'[d] = previous_value[d])]_vars

\* the out-of-limits adjustment has failed after another adjustment had written
\* the same parameter of the same component, and that write and its place on
\* the undo stack stand
C26_Witness ==
    /\ last_op.op = "execute"
    /\ last_op.cmd = "unsafe"
    /\ ~last_op.refused
    /\ ~last_op.success
    /\ OutsideEnvelope("unsafe")
    /\ parameter_value[Target("unsafe")] = Some(new_value["adjust"])
    /\ undo_stack = <<"adjust">>

(***************************************************************************)
(* Properties of the event bus (BusSpec)                                   *)
(***************************************************************************)
\* a publish call by p starts in this step; its event is added to the history
PublishStarts(p) ==
    last_publish'.publisher = p
Delivers(p) ==
    PublishStarts(p) /\ last_publish'.event \in Range(event_history')

\* C14: publish creates the on_event task of every observer subscribed to the
\* event's type, and when the on_event of one of them has raised, publish
\* returns true after the on_event of every other one has run to its end.
C14_ObserverFailureIsolated ==
    /\ [][ \A p \in Publishers :
             Delivers(p)
             => \A o \in observers[last_publish'.event.type] :
                   tasks'[p][o] = "running" ]_vars
    /\ []( (\E o \in Observers : last_return.outcomes[o] = "failed")
           => /\ last_return.result = "true"
              /\ \A o \in Observers :
                    last_return.outcomes[o] \in {"none", "done", "failed"} )

C14_Witness ==
    /\ last_return.result = "true"
    /\ last_return.outcomes["o1"] = "failed"
    /\ last_return.outcomes["o2"] = "done"

\* C15 as stated: a publish call in which a filter returns false returns false,
\* applies no transformer, creates no on_event task and leaves the history as
\* it was; and an event is added to the history and handed to the observers
\* only if every registered filter was called and returned true.
C15_DeliveredOnlyIfEveryFilterAccepted ==
    [][ \A p \in Publishers :
          PublishStarts(p)
          => /\ last_publish'.rejected
                => /\ last_return'.publisher = p
                   /\ last_return'.result = "false"
                   /\ last_publish'.transformers_applied = 0
                   /\ \A o \in Observers : tasks'[p][o] = "none"
                   /\ event_history' = event_history
             /\ Delivers(p)
                => (~last_publish'.rejected /\ ~last_publish'.filter_raised) ]_vars

\* C15, amended: a publish call in which a filter returns false returns false,
\* applies no transformer, creates no on_event task and leaves the history as
\* it was; an event is added to the history and handed to the observers only
\* if no filter that was called returned false (a filter that raises is logged
\* and does not reject).
C15_DeliveredOnlyIfNoFilterRejected ==
    [][ \A p \in Publishers :
          PublishStarts(p)
          => /\ last_publish'.rejected
                => /\ last_return'.publisher = p
                   /\ last_return'.result = "false"
                   /\ last_publish'.transformers_applied = 0
                   /\ \A o \in Observers : tasks'[p][o] = "none"
                   /\ event_history' = event_history
             /\ Delivers(p) => ~last_publish'.rejected ]_vars

\* the first filter raised, the second returned false, observers were waiting
C15_Witness ==
    /\ last_publish.rejected /\ last_publish.filter_raised
    /\ observers[last_publish.event.type] # {}
    /\ last_return.result = "false"

\* C16 as stated (BusLiveSpec): every publish call that waits for its on_event
\* tasks returns in the end, whether the tasks return, raise or never end.
C16_PublishEventuallyReturns ==
    \A p \in Publishers : (pub_pc[p] = "gathering") ~> (pub_pc[p] = "idle")

\* the limits get_event_history is asked with (0: the whole list, as s[-0:])
HistoryLimits == 0..(bus_max_history_size + 1)

\* C17: the history never holds more than its capacity; a publish that adds an
\* event to a full history drops the oldest one and keeps the others in order;
\* get_event_history for a type returns events of that type only, in the order
\* they were published.
C17_HistoryBoundedAndOrdered ==
    /\ []( Len(event_history) <= bus_max_history_size )
    /\ [][ IF \E p \in Publishers : PublishStarts(p) /\ ~last_publish'.rejected
           THEN event_history' =
                   Append(IF Len(event_history) = bus_max_history_size
                          THEN Tail(event_history) ELSE event_history,
                          last_publish'.event)
           ELSE event_history' = event_history ]_vars
    /\ []( \A t \in EventTypes, limit \in HistoryLimits :
             LET h == get_event_history(t, limit)
             IN  /\ \A i \in DOMAIN h : h[i].type = t
                 /\ \A i, j \in DOMAIN h : i < j => h[i].id < h[j].id
                 /\ limit > 0 => Len(h) <= limit )

\* the oldest event has been dropped from a full history that holds both types
C17_Witness ==
    /\ Len(event_history) = bus_max_history_size
    /\ event_history[1].id > 1
    /\ last_publish.event = event_history[Len(event_history)]
    /\ {e.type : e \in Range(event_history)} = EventTypes

(***************************************************************************)
(* Properties of the Executor (ExecutorSpec)                               *)
(***************************************************************************)
\* an execute call starts in this step; its plans (it either returns at once
\* or waits in gather)
ExecuteStarts ==
    exec_pc = "idle" /\ (exec_pc' = "gathering" \/ exec_result'.returned)
StartedPlans ==
    exec_result'.plans \o exec_plans'
\* it has a command for node n
DispatchesTo(n) ==
    ExecuteStarts /\ \E i \in DOMAIN StartedPlans : StartedPlans[i] = n
\* the POST of a dispatched command to node n is under way after this step
Attempts(n) ==
    \E i \in DOMAIN exec_tasks' :
        exec_tasks'[i].node = n /\ exec_tasks'[i].state = "running"

\* C18 as stated: once fail_max calls in a row to an endpoint have failed, an
\* execute_command call for it made less than reset_timeout seconds after the
\* last of them is refused without a POST, and one made later is let through.
C18_BreakerOpensAfterFailMax ==
    [][ \A n \in NodeIds :
          (DispatchesTo(n) /\ HasAddress(n) /\ endpoint[n].failures >= fail_max)
          => IF now < endpoint[n].tripped_at + reset_timeout
             THEN ~Attempts(n) /\ exec_result'.outcome = "raised"
             ELSE Attempts(n) ]_vars

\* C19 as stated: execute creates one running call for every planned command
\* before any of them is answered, and it returns a result that holds, for
\* every planned command in order, how its call ended, failed calls included.
C19_OneOutcomePerPlannedCommand ==
    [][ /\ ExecuteStarts
           => /\ exec_result'.outcome # "raised"
              /\ Len(exec_result'.results) + Len(exec_tasks') = Len(StartedPlans)
              /\ \A i \in DOMAIN exec_tasks' : exec_tasks'[i].state = "running"
        /\ (exec_pc = "gathering" /\ exec_result'.returned)
           => /\ exec_result'.outcome = "returned"
              /\ Len(exec_result'.results) = Len(exec_plans)
              /\ \A i \in DOMAIN exec_tasks :
                    /\ exec_tasks[i].state \in {"ok", "failed"}
                    /\ exec_result'.results[i] = exec_tasks[i].state ]_vars

\* C19, amended: execute creates one running call for every planned command
\* whose node has an address before any of them is answered, and it returns a
\* result that holds, for every such command in plan order, how its call
\* ended, failed calls included; a planned command whose node has no address
\* is skipped and has no outcome.
C19_OneOutcomePerDispatchedCommand ==
    [][ /\ ExecuteStarts
           => /\ exec_result'.outcome # "raised"
              /\ Len(exec_result'.results) + Len(exec_tasks')
                    = Len(Dispatched(StartedPlans))
              /\ \A i \in DOMAIN exec_tasks' :
                    /\ exec_tasks'[i].state = "running"
                    /\ exec_tasks'[i].node = Dispatched(StartedPlans)[i]
        /\ (exec_pc = "gathering" /\ exec_result'.returned)
           => /\ exec_result'.outcome = "returned"
              /\ Len(exec_result'.results) = Len(Dispatched(exec_plans))
              /\ \A i \in DOMAIN exec_tasks :
                    /\ exec_tasks[i].state \in {"ok", "failed"}
                    /\ exec_tasks[i].node = Dispatched(exec_plans)[i]
                    /\ exec_result'.results[i] = exec_tasks[i].state ]_vars

\* an execute call has returned a failure and a success, with a plan skipped
C19_Witness ==
    /\ exec_result.returned
    /\ exec_result.results = <<"failed", "ok">>
    /\ \E i \in DOMAIN exec_result.plans : ~HasAddress(exec_result.plans[i])

(***************************************************************************)
(* Properties of the emergency shutdown (ShutdownSpec)                     *)
(***************************************************************************)
\* the kinds of log entry a call of _shutdown_component leaves
ShutdownEntries == {"shutdown", "shutdown_refused", "shutdown_raised"}
\* the components the last call has made a device call of these kinds for
LoggedFor(kinds) ==
    {sd_log[i][2] : i \in {j \in 1..Len(sd_log) : sd_log[j][1] \in kinds}}
Listed == {component_ids[i] : i \in 1..Len(component_ids)}

\* in an execute, the state of every component has been captured before the
\* first component is shut down
CaptureBeforeShutdown ==
    \A i \in 1..Len(sd_log) :
        sd_log[i][1] \in ShutdownEntries =>
            \A c \in Listed : \E j \in 1..(i - 1) : sd_log[j] = <<"capture", c>>

\* an execute that has begun to shut components down has called
\* _shutdown_component for every component when it returns
ShutdownReachesEveryComponent ==
    (sd_result.op = "execute" /\ LoggedFor(ShutdownEntries) # {})
    => LoggedFor(ShutdownEntries) = Listed

\* an undo called on the command after states were captured is not turned
\* away, and when it succeeds it has restored every component whose state was
\* captured (every component, once an execute has reached the shutdown loop)
UndoRestoresEveryComponent ==
    /\ (sd_result.op = "undo" /\ sd_result.success)
           => LoggedFor({"restore"}) = {Captured[i] : i \in 1..Len(Captured)}
    /\ (sd_result.op = "undo" /\ ~sd_result.success)
           => Captured = <<>> \/ LoggedFor({"restore_raised"}) # {}

\* C27 as stated: every component's state is captured before any component is
\* shut down, and a component that fails to shut down stops neither the
\* shutdown of the other components nor their later restoration by undo.
C27_ShutdownFailuresDoNotBlock ==
    /\ CaptureBeforeShutdown
    /\ ShutdownReachesEveryComponent
    /\ UndoRestoresEveryComponent

(***************************************************************************)
(* Properties of the integration manager (ManagerSpec)                     *)
(***************************************************************************)
\* the systems whose readings reached all_readings and that report sensor id
ReportedBy(id) ==
    {s \in last_read.read_from :
        \E i \in 1..Len(sensor_mapping[s]) : sensor_mapping[s][i] = id}

\* C28: read_all_sensors returns at most one reading per sensor id, namely one
\* for every sensor some system that was read reports, and that reading comes
\* from a system of the highest priority among the systems reporting the
\* sensor, in whatever order the systems were added.
C28_DedupKeepsHighestPriority ==
    last_read.called =>
        LET r == last_read.readings IN
        /\ \A i, j \in 1..Len(r) : r[i].sensor_id = r[j].sensor_id => i = j
        /\ \A id \in {"pressure", "flow"} :
               ReportedBy(id) # {} <=> \E i \in 1..Len(r) : r[i].sensor_id = id
        /\ \A i \in 1..Len(r) :
               /\ r[i].source_system \in ReportedBy(r[i].sensor_id)
               /\ r[i].system_priority = system_priorities[r[i].source_system]
               /\ \A s \in ReportedBy(r[i].sensor_id) :
                      system_priorities[s] <= r[i].system_priority

\* three systems reporting the same sensor were read, the one added last has
\* the highest priority, and its reading is the one returned
C28_Witness ==
    /\ last_read.called
    /\ last_read.read_from = Systems
    /\ system_priorities[adapters[1]] < system_priorities[adapters[2]]
    /\ system_priorities[adapters[2]] < system_priorities[adapters[3]]
    /\ \E i \in 1..Len(last_read.readings) :
           /\ last_read.readings[i].sensor_id = "flow"
           /\ last_read.readings[i].source_system = adapters[3]

\* the systems the command was sent to, in the order of the calls
TriedSystems == [i \in 1..Len(last_command.tried) |-> last_command.tried[i][1]]

\* C29: execute_command_on_best_system sends the command to the connected
\* systems in descending order of priority and to none after the first success;
\* it returns success exactly when a system accepted, and it returns failure
\* only after every connected system has rejected the command or raised.
C29_BestSystemFirst ==
    last_command.called =>
        LET t == last_command.tried
            n == Len(t)
        IN  /\ \A i \in 1..n : connected[t[i][1]]
            /\ \A i, j \in 1..n : i < j =>
                   /\ t[i][1] # t[j][1]
                   /\ system_priorities[t[i][1]] >= system_priorities[t[j][1]]
            /\ \A i \in 1..n : t[i][2] = "ok" => i = n
            \* a connected system left out has no higher priority than one tried
            /\ \A s \in Range(last_command.capable) :
                   (\A i \in 1..n : t[i][1] # s) =>
                       /\ last_command.result
                       /\ system_priorities[s] <= system_priorities[t[n][1]]
            /\ last_command.result <=> (n > 0 /\ t[n][2] = "ok")
            /\ ~last_command.result =>
                   /\ Range(TriedSystems) = Range(last_command.capable)
                   /\ \A i \in 1..n : t[i][2] \in {"rejected", "raise"}

\* the command went to the highest-priority system, which was added last and
\* raised, then to the next one, which accepted; the third connected system
\* was not called
C29_Witness ==
    /\ last_command.called
    /\ last_command.result
    /\ Len(last_command.capable) = 3
    /\ Len(last_command.tried) = 2
    /\ last_command.tried[1] = <<adapters[3], "raise">>
    /\ last_command.tried[2][2] = "ok"

(***************************************************************************)
(* Properties of the analysis (AnalysisSpec)                               *)
(***************************************************************************)
\* the states of the Analyzer under the names of SystemState
StateName(st) ==
    CASE st = "normal"    -> "NORMAL"
      [] st = "alert"     -> "WARNING"
      [] st = "emergency" -> "CRITICAL"
      [] OTHER            -> st

\* the rule of the claim: a critical violation gives CRITICAL; otherwise a
\* quality score above 0.8 gives NORMAL and a lower one CRITICAL from three
\* violations on, WARNING below
StateByQualityRule(r) ==
    IF r.critical_violations > 0 THEN "CRITICAL"
    ELSE IF r.quality_score > 80 THEN "NORMAL"
    ELSE IF r.violations >= 3 THEN "CRITICAL" ELSE "WARNING"

NumberOf(Test(_)) ==
    Cardinality({i \in DOMAIN analysis_input.sensor_data :
                    Test(analysis_input.sensor_data[i])})

RegisteredStrategyNames ==
    {"normal_operation", "peak_demand", "emergency_response",
     "drought_conditions"}

BeyondPeakThreshold(context, d) ==
    CASE d.sensor_type = "flow" ->
             d.value * 1000 > PeakThresholds(context).max_flow
      [] d.sensor_type = "pressure" ->
             d.value * 1000 > PeakThresholds(context).max_pressure
      [] OTHER -> FALSE

\* C37: under the peak-demand strategy a flow or pressure reading is a
\* violation exactly when it exceeds the ceiling get_thresholds returns for
\* the context, the base ceiling widened by load_factor * 0.3 for flow and
\* tightened by load_factor * 0.1 for pressure.
C37_PeakViolationsFollowThresholds ==
    (/\ analysis_result.by = "peak_demand"
     /\ \A i \in DOMAIN analysis_input.sensor_data :
            analysis_input.sensor_data[i].sensor_type \in {"flow", "pressure"})
        => analysis_result.violations =
               NumberOf(LAMBDA d : BeyondPeakThreshold(analysis_input.context, d))

\* the fields of the node that have a value and a threshold are marked 1
\* within [min, max] and 0 outside
MarksFollowThreshold ==
    analysis_result.by = "analyzer" =>
        \A i \in DOMAIN analysis_input.fields :
            LET f == analysis_input.fields[i] IN
            (~f.null /\ f.has_threshold) =>
                (analysis_result.marks[i] = 1 <=>
                    (field_threshold.min_val <= f.value
                        /\ f.value <= field_threshold.max_val))

\* C34: for a reading without data-quality issues the Analyzer marks each
\* field 1 when its value is within [min, max] of its threshold and 0
\* otherwise, and the state of the node is 'normal' exactly when no field is
\* marked 0.
C34_NormalIffNoFieldMarkedZero ==
    (analysis_result.by = "analyzer" /\ analysis_input.issues = 0) =>
        /\ MarksFollowThreshold
        /\ analysis_result.state = "normal" <=>
               \A i \in DOMAIN analysis_result.marks :
                   analysis_result.marks[i] # 0

C40_RecommendationIsRegistered ==
    (last_scenario_op.op = "recommend" /\ strategies = InitialStrategies)
        => last_scenario_op.scenario \in DOMAIN strategies

(***************************************************************************)
(* Properties of the gradual adjustment (AdjustSpec)                       *)
(***************************************************************************)
\* C36: every write of an adjustment, on execute and on undo, changes the
\* value by no more than the adjustment rate of 0.1, and the last write of a
\* loop sets exactly the value the loop goes to.
C36_StepsWithinAdjustmentRate ==
    [][adj_i' = adj_i + 1 =>
         /\ Abs(adj_intermediate' - adj_intermediate)
                <= Hundredths(adjustment_rate) * adj_steps
         /\ adj_i' = adj_steps => adj_intermediate' = adj_target * adj_steps]_vars

\* the last write of a loop sets exactly the value the loop goes to
LastStepSetsTarget ==
    [][(adj_i' = adj_i + 1 /\ adj_i' = adj_steps)
           => adj_intermediate' = adj_target * adj_steps]_vars

(***************************************************************************)
(* Properties of the bus metrics (BusMetricsSpec)                          *)
(***************************************************************************)
\* C38: whenever no publish call is in progress, events_published is the sum
\* of events_filtered, observer_notifications and notification_errors.
C38_CountersAddUp ==
    (\A p \in Publishers : pub_pc[p] = "idle")
        => metrics.events_published =
               metrics.events_filtered + metrics.observer_notifications
                   + metrics.notification_errors

(***************************************************************************)
(* Properties of the control loop (LoopLiveSpec)                           *)
(***************************************************************************)
LoopSleeping == loop_pc \in {"sleep", "error_sleep"}

\* the calls of the running iteration are the first services of the try
\* block, in its order, and only the last of them can have raised
CallsInOrder ==
    /\ Len(loop_calls) <= Len(LoopServices)
    /\ \A i \in DOMAIN loop_calls :
          /\ loop_calls[i].service = LoopServices[i]
          /\ loop_calls[i].outcome = "raised" => i = Len(loop_calls)

\* a call that raised has ended the iteration as failed: run_loop is in the
\* sleep of its except block and calls nothing more
FailureEndsCycle ==
    (\E i \in DOMAIN loop_calls : loop_calls[i].outcome = "raised")
        <=> (loop_status = "failed" /\ loop_pc = "error_sleep")

\* the sleep between two iterations begins only when the iteration is over:
\* all four calls returned, or one raised
SleepAfterCycle ==
    /\ loop_pc = "sleep" =>
          /\ loop_status = "completed"
          /\ Len(loop_calls) = Len(LoopServices)
          /\ \A i \in DOMAIN loop_calls : loop_calls[i].outcome = "returned"
    /\ loop_status = "running" => ~LoopSleeping
    /\ loop_status # "running" => LoopSleeping

\* an iteration starts only out of a sleep
CycleStartsAfterSleep ==
    loop_cycle' # loop_cycle => LoopSleeping /\ loop_pc' = "monitor"

\* C33: in run_loop an iteration calls Monitor, Analyze, Plan and Execute in
\* that order; a call that raises ends the iteration as failed with no later
\* call made; a sleep begins only when the iteration has completed or
\* failed, the next iteration begins only out of a sleep, and every sleep,
\* after a completed or a failed iteration, leads to the start of the next
\* iteration.
C33_CycleEndsBeforeSleepAndNextStarts ==
    /\ [](CallsInOrder /\ FailureEndsCycle /\ SleepAfterCycle)
    /\ [][CycleStartsAfterSleep]_vars
    /\ (LoopSleeping ~> (loop_pc = "monitor" /\ loop_status = "running"))

\* a second iteration is running after a first one in which read_sensors or
\* analyze raised: its read_sensors has returned and analysis is still a
\* name no iteration has bound
C33_Witness ==
    /\ loop_cycle = 1
    /\ loop_status = "running"
    /\ loop_pc = "analyze"
    /\ loop_sensor_data = Output("monitor", 1)
    /\ loop_analysis = Unbound

(***************************************************************************)
(* Properties of the MAPE cycle (CycleSpec, StandardSpec)                  *)
(***************************************************************************)
\* the calls of `service` in the running execute_pipeline call
StdCallsOf(service) == {i \in DOMAIN std_calls : std_calls[i].service = service}

\* a run of the standard pipeline that has returned with no failure metric
StdCompleted == std_pc = "returned" /\ std_failed = {}

\* the four calls of an iteration of run_loop in which all of them returned
LoopCompletedCalls ==
    <<ServiceCall("monitor", NoArgument, "returned"),
      ServiceCall("analyze", Output("monitor", loop_cycle), "returned"),
      ServiceCall("plan", Output("analyze", loop_cycle), "returned"),
      ServiceCall("execute", Output("plan", loop_cycle), "returned")>>

\* every call made so far in the running execute_pipeline call received what
\* the stage before it left in the context of this call
StdCallsReceivePreviousOutput ==
    \A i \in DOMAIN std_calls :
       LET call == std_calls[i] IN
       /\ call.service = "analyzer_service" =>
             call.argument = ContextValue("sensor_service", std_run, "readings")
       /\ call.service = "planner_service" =>
             /\ call.argument = std_analysis_result
             /\ call.argument.run = std_run
             /\ call.argument.by \in {"analyzer_service", "analyze_phase"}
       /\ call.service = "executor_service" =>
             /\ call.argument = std_execution_plan
             /\ call.argument.run = std_run
             /\ call.argument.by = "planner_service"

StdServiceRaised(service) ==
    \E i \in StdCallsOf(service) : std_calls[i].outcome = "raised"

\* C39 as stated (StandardSpec): in a run of the standard pipeline the
\* executor service is invoked at most once, and only with the plan the Plan
\* stage of that run left in the context; when the Monitor, Analyze or Plan
\* stage of the run has failed, or the plan's action is no_action, the
\* executor is not invoked.
C39_ExecutorOnlyAfterSoundStages ==
    /\ Cardinality(StdCallsOf("executor_service")) <= 1
    /\ \A i \in StdCallsOf("executor_service") :
          /\ std_calls[i].argument = std_execution_plan
          /\ std_calls[i].argument.run = std_run
          /\ std_calls[i].argument.by = "planner_service"
    /\ (std_pc # "idle"
          /\ (std_failed \cap {"monitor", "analyze", "plan"} # {}
                \/ std_execution_plan.v = "no_action"))
          => StdCallsOf("executor_service") = {}

\* C39, amended (StandardSpec): in a run of the standard pipeline the
\* executor service is invoked at most once, and only with the plan the
\* planner returned in that run, which is not empty and whose action is not
\* no_action; it is not invoked when the analyzer service or the planner
\* service raised in the run, nor when the plan in the context is empty or
\* its action is no_action, and it is invoked in every other run that gets
\* to the Execute stage, a failed Monitor, Analyze or Plan stage or not.
C39_ExecutorOnlyWithPlannedAction ==
    /\ Cardinality(StdCallsOf("executor_service")) <= 1
    /\ \A i \in StdCallsOf("executor_service") :
          /\ std_calls[i].argument = std_execution_plan
          /\ std_calls[i].argument.run = std_run
          /\ std_calls[i].argument.by = "planner_service"
          /\ std_calls[i].argument.v \notin {"empty", "no_action"}
    /\ (StdServiceRaised("analyzer_service") \/ StdServiceRaised("planner_service"))
          => StdCallsOf("executor_service") = {}
    /\ std_pc \in {"knowledge_update", "post", "returned"} =>
          (StdCallsOf("executor_service") # {}
              <=> (Truthy(std_execution_plan)
                      /\ std_execution_plan.v # "no_action"))

\* the analyzer raised on the readings collected, plan_phase set the plan to
\* no_action without asking the planner, and the Execute stage has run
\* without a call of the executor
C39_Witness ==
    /\ std_pc = "knowledge_update"
    /\ StdServiceRaised("analyzer_service")
    /\ std_execution_plan = ContextValue("plan_phase", std_run, "no_action")
    /\ std_execution_result = ContextValue("execute_phase", std_run, "skipped")
    /\ StdCallsOf("executor_service") = {}

====
